---- MODULE Spec2Model ----
(***************************************************************************)
(* Device-side resilience and synchronisation controller of pi-kiosk:      *)
(* candidate discovery and health probing (network_helper.py), the         *)
(* connection manager of kiosk.py main(), and the page rotation state.     *)
(*                                                                         *)
(* Text is modelled as a sequence of tokens: "http://", "https://", ":",   *)
(* "/", "." and the labels between them, so that parsing, prefix tests and *)
(* URL construction are computed and not assumed.                          *)
(***************************************************************************)
EXTENDS Integers, Sequences, FiniteSets, TLC

VARIABLES
    \* ---- discovery (network_helper.get_connection_candidates) ----
    disc,                   \* inputs and result of one discovery call
    \* ---- health probe (test_connection_health / test_server_connection) ----
    probe,                  \* inputs and result of one probe call
    \* ---- environment of the connection manager ----
    clock,                  \* time.time(), whole seconds
    local_net,              \* get_local_network(): subnet of the default interface
    \* ---- socket.io client ----
    sio_connected,          \* sio.connected
    sio_url,                \* URL of the last sio.connect (background reconnects use it)
    sio_reconnect,          \* the client's background reconnection is running
    evq,                    \* connect / disconnect events not yet handled
    \* ---- kiosk.py connection globals ----
    current_server_url,
    connection_type,
    last_disconnect_time,
    last_local_failure_time,
    last_switch_time,
    local_stable_since,
    \* ---- main(): position and locals ----
    pc,
    now,
    last_switch_check,
    cands,                  \* candidates handed to find_best_server_url
    scan_i,                 \* index of the next candidate of the round
    scan_start,
    scan_timeout,
    scan_ret,               \* where find_best_server_url returns to
    new_url,
    new_type,
    local_candidate,
    \* ---- observation of the run (history) ----
    ev,                     \* what the last step did
    confirmed,              \* URLs a health probe has found reachable
    run_since,              \* since when every probe of the local candidate succeeded
    round_log,              \* the probes of the present scan round, in order
    \* ---- rotation state (kiosk.py globals) ----
    pages,
    current_index,
    sync_enabled,
    reset_timer,
    browser_ready,
    paused,
    pause_reason,
    admin_mode_active,
    last_paused_before_disconnect,
    sync_at,
    sync_target_page_id,
    sync_server_time,
    sync_received_at,
    hpc,                    \* position of the event handler in progress
    spc,                    \* position of switcher_thread
    wait_start,             \* switcher_thread: start of the duration wait
    wait_duration,          \* switcher_thread: duration of the page being shown
    \* ---- renderer supervision (kiosk.py globals and main() locals) ----
    safe_mode_until,
    crash_times,
    last_crash,
    browser_exited,         \* browser_process.poll() is not None
    launched,               \* what the last launch_browser_with_tabs was given
    \* ---- observation of the rotation and of the supervision (history) ----
    switcher_key,           \* keystroke sent by the last step of switcher_thread
    exits,                  \* every renderer exit main() recorded: when, and whether
                            \* safe mode was entered at it
    \* ---- one call of a function under study ----
    calc,
    \* ---- screenshots (kiosk.py globals, and the callers of upload_screenshot) ----
    last_screenshot_time,
    shot_lock,              \* the caller that holds shot_lock, or NoCaller
    shot_pc,                \* position of every caller inside upload_screenshot
    attempts,               \* when capture_screenshot was called, the last two times
                            \* (history)
    \* ---- auto-refresh (kiosk.py global, line 123) ----
    page_switch_counts,     \* page id -> timer arrivals since the page's last refresh
    arrivals                \* page id -> timer arrivals at the page while its refresh
                            \* is enabled, since the start (history)

discVars == <<disc>>
probeVars == <<probe>>
envVars == <<clock, local_net>>
sioVars == <<sio_connected, sio_url, sio_reconnect, evq>>
connGlobals == <<current_server_url, connection_type, last_disconnect_time,
                 last_local_failure_time, last_switch_time, local_stable_since>>
mainVars == <<pc, now, last_switch_check, cands, scan_i, scan_start, scan_timeout,
              scan_ret, new_url, new_type, local_candidate>>
histVars == <<ev, confirmed, run_since, round_log>>
pauseVars == <<paused, pause_reason, admin_mode_active, last_paused_before_disconnect>>
syncVars == <<sync_at, sync_target_page_id, sync_server_time, sync_received_at>>
switcherVars == <<spc, wait_start, wait_duration>>
rotVars == <<pages, current_index, sync_enabled, reset_timer, browser_ready, hpc,
             syncVars, switcherVars>>
connVars == <<envVars, sioVars, connGlobals, mainVars, histVars>>
safeVars == <<safe_mode_until, crash_times, last_crash, browser_exited, launched, exits>>
shotVars == <<last_screenshot_time, shot_lock, shot_pc, attempts>>
refreshVars == <<page_switch_counts, arrivals>>
auxVars == <<safeVars, switcher_key, calc, shotVars, refreshVars>>
vars == <<discVars, probeVars, auxVars, connVars, pauseVars, rotVars>>

None == "None"      \* Python None where a string is expected
NoUrl == <<>>        \* Python None where a URL is expected
NoIndex == 0 - 1     \* Python None where a page index is expected
NoPageId == 0        \* Python None (or a missing key) where a page id is expected
NoTime == 0 - 1      \* Python None where a timestamp is expected
Text == 0 - 999      \* a string that is no number, where a number is expected

(***************************************************************************)
(* Token-level text helpers (str.replace, str.split, str.rstrip,           *)
(* str.startswith, `in`).                                                  *)
(***************************************************************************)
RECURSIVE RemoveAll(_, _)
RemoveAll(s, toks) ==
    IF s = <<>> THEN <<>>
    ELSE IF Head(s) \in toks THEN RemoveAll(Tail(s), toks)
    ELSE <<Head(s)>> \o RemoveAll(Tail(s), toks)

Contains(s, t) == \E i \in 1..Len(s) : s[i] = t

FirstIndex(s, t) == CHOOSE i \in 1..Len(s) : s[i] = t /\ \A j \in 1..(i - 1) : s[j] # t

RECURSIVE RStrip(_, _)
RStrip(s, t) ==
    IF s # <<>> /\ s[Len(s)] = t THEN RStrip(SubSeq(s, 1, Len(s) - 1), t) ELSE s

\* parts[0] and parts[1] of s.split(t), for s holding t
SplitPart0(s, t) == SubSeq(s, 1, FirstIndex(s, t) - 1)
SplitPart1(s, t) ==
    LET rest == SubSeq(s, FirstIndex(s, t) + 1, Len(s))
    IN IF Contains(rest, t) THEN SubSeq(rest, 1, FirstIndex(rest, t) - 1) ELSE rest

StartsWith(s, p) == Len(s) >= Len(p) /\ SubSeq(s, 1, Len(p)) = p

\* labels whose first character is a digit
DigitLabels == {"0", "1", "5", "7", "8", "10", "16", "64", "100", "127", "168", "172", "192"}
FirstCharIsDigit(host) == host # <<>> /\ host[1] \in DigitLabels

IsLocalPattern(host) ==
    \/ StartsWith(host, <<"192", ".", "168", ".">>)
    \/ StartsWith(host, <<"10", ".">>)
    \/ StartsWith(host, <<"172", ".">>)
IsTailscalePattern(host) == StartsWith(host, <<"100", ".">>)
IsLoopbackPattern(host) == host = <<"localhost">> \/ StartsWith(host, <<"127", ".">>)

(***************************************************************************)
(* network_helper.py: candidate discovery.                                 *)
(***************************************************************************)
NoName == <<>>
NoIP == <<>>

\* `a in b` / b.startswith(a + '.') for the names that occur in the model
SubstringPairs ==
    { <<(<<"pi-server">>), (<<"pi-server", ".", "tail1234", ".", "ts", ".", "net">>)>>,
      <<(<<"kiosk-server">>), (<<"kiosk-server", ".", "tail1234", ".", "ts", ".", "net">>)>>,
      <<(<<"pi-server">>), (<<"old-pi-server">>)>> }
NameIn(a, b) == a = b \/ <<a, b>> \in SubstringPairs

IsIPv4Tailscale(ip) == ~Contains(ip, ":") /\ IsTailscalePattern(ip)

NoPeer == [hostname |-> <<>>, dns_name |-> <<>>, online |-> FALSE, tailscale_ips |-> <<>>]

\* find_peer_by_name: the first peer of the status whose hostname or DNS name matches
find_peer_by_name(name, net) ==
    LET hits == { i \in 1..Len(net.peers) :
                    \/ NameIn(name, net.peers[i].hostname)
                    \/ NameIn(name, net.peers[i].dns_name) }
    IN IF ~net.backend_active \/ hits = {} THEN NoPeer
       ELSE net.peers[CHOOSE i \in hits : \A j \in hits : i <= j]

FirstTailscaleIP(ips) ==
    LET ok == { i \in 1..Len(ips) : IsIPv4Tailscale(ips[i]) }
    IN IF ok = {} THEN NoIP ELSE ips[CHOOSE i \in ok : \A j \in ok : i <= j]

get_peer_tailscale_ip(name, net) ==
    LET peer == find_peer_by_name(name, net)
    IN FirstTailscaleIP(peer.tailscale_ips)

\* socket.gethostbyname(configured_host): net.dns, NoIP standing for gaierror
resolve_tailscale_name(name, net) ==
    LET ip == get_peer_tailscale_ip(name, net)
    IN IF ip # NoIP THEN ip
       ELSE IF net.dns # NoIP /\ IsTailscalePattern(net.dns) THEN net.dns
       ELSE NoIP

is_tailscale_active(net) == net.ts_running

Candidate(url, type, priority, hostname) ==
    [url |-> url, type |-> type, priority |-> priority, hostname |-> hostname]

\* add_candidate: append unless the URL was seen
add_candidate(cs, url, type, priority, hostname) ==
    IF \E i \in 1..Len(cs) : cs[i].url = url THEN cs
    ELSE Append(cs, Candidate(url, type, priority, hostname))

RECURSIVE AddPeerIPs(_, _, _, _)
AddPeerIPs(cs, ips, port, hostname) ==
    IF ips = <<>> THEN cs
    ELSE AddPeerIPs(
            IF IsIPv4Tailscale(Head(ips))
            THEN add_candidate(cs, <<"http://">> \o Head(ips) \o <<":">> \o port,
                               "tailscale", 2, hostname)
            ELSE cs,
            Tail(ips), port, hostname)

RECURSIVE AddOnlinePeers(_, _, _)
AddOnlinePeers(cs, peers, port) ==
    IF peers = <<>> THEN cs
    ELSE AddOnlinePeers(
            IF Head(peers).online
            THEN AddPeerIPs(cs, Head(peers).tailscale_ips, port, Head(peers).hostname)
            ELSE cs,
            Tail(peers), port)

\* list.sort(key=priority): stable insertion sort
RECURSIVE InsertByPriority(_, _)
InsertByPriority(sorted, c) ==
    IF sorted = <<>> THEN <<c>>
    ELSE IF sorted[Len(sorted)].priority <= c.priority THEN Append(sorted, c)
    ELSE Append(InsertByPriority(SubSeq(sorted, 1, Len(sorted) - 1), c), sorted[Len(sorted)])

RECURSIVE SortByPriority(_)
SortByPriority(cs) ==
    IF cs = <<>> THEN <<>>
    ELSE InsertByPriority(SortByPriority(SubSeq(cs, 1, Len(cs) - 1)), cs[Len(cs)])

DefaultPort == <<"5000">>

ParsedHost(configured_url) ==
    LET u == RemoveAll(configured_url, {"http://", "https://"})
    IN IF configured_url = <<>> THEN <<>>
       ELSE IF Contains(u, ":") THEN SplitPart0(u, ":") ELSE RStrip(u, "/")

ParsedPort(configured_url) ==
    LET u == RemoveAll(configured_url, {"http://", "https://"})
    IN IF configured_url # <<>> /\ Contains(u, ":") THEN RStrip(SplitPart1(u, ":"), "/")
       ELSE DefaultPort

MakeUrl(host, port) == <<"http://">> \o host \o <<":">> \o port

\* lines 382-399: the configured host matched against the three address patterns,
\* which exclude one another
PatternCandidates(host, port) ==
    IF host = <<>> THEN <<>>
    ELSE IF IsLoopbackPattern(host) THEN <<Candidate(MakeUrl(host, port), "localhost", 0, <<>>)>>
    ELSE IF IsLocalPattern(host) THEN <<Candidate(MakeUrl(host, port), "local", 1, <<>>)>>
    ELSE IF IsTailscalePattern(host) THEN <<Candidate(MakeUrl(host, port), "tailscale", 2, <<>>)>>
    ELSE <<>>

\* lines 404-408, method 1: the named overlay peer
NamedPeerCandidates(cs, port, server_name, net) ==
    LET ip == IF server_name # NoName /\ is_tailscale_active(net)
              THEN get_peer_tailscale_ip(server_name, net) ELSE NoIP
    IN IF ip # NoIP THEN add_candidate(cs, MakeUrl(ip, port), "tailscale", 2, server_name)
       ELSE cs

\* lines 410-415, method 2: the symbolic host resolved through the overlay
ResolvedCandidates(cs, host, port, net) ==
    LET ip == IF host # <<>> /\ ~FirstCharIsDigit(host) /\ is_tailscale_active(net)
              THEN resolve_tailscale_name(host, net) ELSE NoIP
    IN IF ip # NoIP THEN add_candidate(cs, MakeUrl(ip, port), "tailscale", 2, host)
       ELSE cs

\* lines 410 and 417-425, method 2: the symbolic host resolved through DNS
DnsCandidates(cs, host, port, net) ==
    IF host # <<>> /\ ~FirstCharIsDigit(host) /\ is_tailscale_active(net) /\ net.dns # NoIP
    THEN IF IsLocalPattern(net.dns)
         THEN add_candidate(cs, MakeUrl(net.dns, port), "local", 1, <<>>)
         ELSE IF IsTailscalePattern(net.dns)
         THEN add_candidate(cs, MakeUrl(net.dns, port), "tailscale", 2, <<>>)
         ELSE cs
    ELSE cs

\* lines 427-442, method 3: every online overlay peer
ScanCandidates(cs, port, auto_scan_tailscale, net) ==
    IF /\ auto_scan_tailscale
       /\ ~\E i \in 1..Len(cs) : cs[i].type = "tailscale"
       /\ is_tailscale_active(net)
    THEN AddOnlinePeers(cs, net.peers, port) ELSE cs

\* the candidates of the rules that precede the last resort (lines 382-442)
RuleCandidates(configured_url, server_name, auto_scan_tailscale, net) ==
    ScanCandidates(
        DnsCandidates(
            ResolvedCandidates(
                NamedPeerCandidates(
                    PatternCandidates(ParsedHost(configured_url), ParsedPort(configured_url)),
                    ParsedPort(configured_url), server_name, net),
                ParsedHost(configured_url), ParsedPort(configured_url), net),
            ParsedHost(configured_url), ParsedPort(configured_url), net),
        ParsedPort(configured_url), auto_scan_tailscale, net)

\* variant: the last resort rebuilt from the parsed host and the default port
FallbackCandidates_Normalised(cs, configured_url, host) ==
    IF cs = <<>> /\ configured_url # <<>>
    THEN <<Candidate(MakeUrl(host, DefaultPort), "unknown", 1, <<>>)>>
    ELSE cs

\* lines 444-454: the configured URL as it is when no rule gave a candidate
FallbackCandidates(cs, configured_url, host) ==
    IF cs = <<>> /\ configured_url # <<>>
    THEN <<Candidate(configured_url,
                     IF host # <<>> /\ IsTailscalePattern(host) THEN "tailscale"
                     ELSE IF host # <<>> /\ IsLocalPattern(host) THEN "local"
                     ELSE "unknown",
                     1, <<>>)>>
    ELSE cs

\* variant: the list in the order the rules produced it
get_connection_candidates_Unsorted(configured_url, server_name, auto_scan_tailscale, net) ==
    FallbackCandidates(
        RuleCandidates(configured_url, server_name, auto_scan_tailscale, net),
        configured_url, ParsedHost(configured_url))

\* lines 333-459
get_connection_candidates(configured_url, server_name, auto_scan_tailscale, net) ==
    SortByPriority(
        FallbackCandidates(
            RuleCandidates(configured_url, server_name, auto_scan_tailscale, net),
            configured_url, ParsedHost(configured_url)))

(***************************************************************************)
(* Inputs of the discovery check.                                          *)
(***************************************************************************)
LocalServerUrl == <<"http://", "192", ".", "168", ".", "1", ".", "5", ":", "5000">>
OverlayServerUrl == <<"http://", "100", ".", "64", ".", "0", ".", "1", ":", "5000">>

ConfiguredUrls ==
    { <<>>,
      <<"http://">>,
      <<"http://", "localhost", ":", "5000">>,
      LocalServerUrl,
      <<"http://", "10", ".", "0", ".", "0", ".", "7", "/">>,
      OverlayServerUrl,
      <<"http://", "8", ".", "8", ".", "8", ".", "8", ":", "8080">>,
      <<"http://", "kiosk-server", ":", "5000">>,
      <<"https://", "kiosk-server", "/">> }

ServerNames == { NoName, <<"pi-server">> }

PeerA == [hostname |-> <<"pi-server">>,
          dns_name |-> <<"pi-server", ".", "tail1234", ".", "ts", ".", "net">>,
          online |-> TRUE,
          tailscale_ips |-> << <<"fd7a", ":", "115c", ":", "1">>,
                               <<"100", ".", "64", ".", "0", ".", "1">> >>]
PeerB == [hostname |-> <<"kiosk-server">>,
          dns_name |-> <<"kiosk-server", ".", "tail1234", ".", "ts", ".", "net">>,
          online |-> TRUE,
          tailscale_ips |-> << <<"100", ".", "64", ".", "0", ".", "2">> >>]
PeerOff == [hostname |-> <<"old-pi-server">>,
            dns_name |-> <<"old-pi-server">>,
            online |-> FALSE,
            tailscale_ips |-> << <<"100", ".", "64", ".", "0", ".", "7">> >>]

PeerLists == { <<>>, <<PeerA>>, <<PeerOff, PeerA>>, <<PeerB, PeerA>>, <<PeerOff>> }

DnsAnswers ==
    { NoIP,
      <<"192", ".", "168", ".", "1", ".", "5">>,
      <<"100", ".", "64", ".", "0", ".", "2">>,
      <<"8", ".", "8", ".", "8", ".", "8">> }

Nets == [ts_running : BOOLEAN, backend_active : BOOLEAN, peers : PeerLists, dns : DnsAnswers]

DiscIdle == disc = [done |-> TRUE, result |-> <<>>]
ProbeIdle == probe = [phase |-> "idle"]

DiscInputs ==
    disc \in [url : ConfiguredUrls, server_name : ServerNames, auto_scan : BOOLEAN,
              net : Nets, result : {<<>>}, done : {FALSE}]

\* one call of network_helper.get_connection_candidates
DiscoverCall ==
    /\ ~disc.done
    /\ disc' = [disc EXCEPT
                  !.result = get_connection_candidates(disc.url, disc.server_name,
                                                       disc.auto_scan, disc.net),
                  !.done = TRUE]
    /\ UNCHANGED <<probeVars, auxVars, connVars, pauseVars, rotVars>>

(***************************************************************************)
(* Health probe: network_helper.test_connection_health and                 *)
(* kiosk.test_server_connection.  The status request ends in a response    *)
(* or in an exception of the Python library; each function catches the     *)
(* exception classes its except clause names.                              *)
(***************************************************************************)
NoException == "NoException"

\* the classes an exception class is an instance of
Ancestors(cls) ==
    CASE cls = "HTTPError"      -> {"HTTPError", "URLError", "OSError", "Exception"}
      [] cls = "URLError"       -> {"URLError", "OSError", "Exception"}
      [] cls = "TimeoutError"   -> {"TimeoutError", "OSError", "Exception"}
      [] cls = "ConnectionResetError" -> {"ConnectionResetError", "OSError", "Exception"}
      [] cls = "BadStatusLine"  -> {"BadStatusLine", "HTTPException", "Exception"}
      [] cls = "InvalidURL"     -> {"InvalidURL", "HTTPException", "ValueError", "Exception"}
      [] cls = "ValueError"     -> {"ValueError", "Exception"}
      [] OTHER                  -> {}

\* what the server (or the network) does with the one status request
ServerBehaviours ==
    { "status200", "status204", "status404", "status500", "refused", "connect_timeout",
      "read_timeout", "reset", "protocol_error" }

ProbeUrls ==
    { LocalServerUrl,
      <<"http://", "100", ".", "64", ".", "0", ".", "1", ":", "5000", "/">>,
      <<"kiosk-server">>,
      <<"http://", "kiosk-server", ":", "abc">> }

HasScheme(url) == url # <<>> /\ Head(url) \in {"http://", "https://"}
PortIsNumeric(url) ==
    LET u == RemoveAll(url, {"http://", "https://"})
    IN ~Contains(u, ":") \/ RStrip(SplitPart1(u, ":"), "/") \in {<<"5000">>, <<"8080">>}

\* the exception urllib.request.urlopen ends in, NoException for a response
UrlopenRaises(url, behaviour) ==
    IF ~HasScheme(url) THEN "ValueError"
    ELSE IF ~PortIsNumeric(url) THEN "InvalidURL"
    ELSE CASE behaviour \in {"status404", "status500"} -> "HTTPError"
           [] behaviour \in {"refused", "connect_timeout"} -> "URLError"
           [] behaviour = "read_timeout" -> "TimeoutError"
           [] behaviour = "reset" -> "ConnectionResetError"
           [] behaviour = "protocol_error" -> "BadStatusLine"
           [] OTHER -> NoException

ResponseStatus(behaviour) ==
    CASE behaviour = "status200" -> 200
      [] behaviour = "status204" -> 204
      [] OTHER -> 0

Returned(v) == [kind |-> "return", value |-> v]
Raised(cls) == [kind |-> "raise", value |-> cls]
Inf == "inf"

\* network_helper.test_connection_health
HealthCaught == {"URLError", "HTTPError", "TimeoutError", "OSError"}
test_connection_health(url, behaviour, latency) ==
    LET exc == UrlopenRaises(url, behaviour)
    IN IF exc = NoException
       THEN IF ResponseStatus(behaviour) = 200 THEN Returned(<<TRUE, latency>>)
            ELSE Returned(<<FALSE, Inf>>)
       ELSE IF Ancestors(exc) \cap HealthCaught # {} THEN Returned(<<FALSE, Inf>>)
       ELSE Raised(exc)

\* kiosk.test_server_connection
test_server_connection(url, behaviour) ==
    LET exc == UrlopenRaises(url, behaviour)
    IN IF exc = NoException
       THEN Returned(ResponseStatus(behaviour) = 200)
       ELSE IF "Exception" \in Ancestors(exc) THEN Returned(FALSE)
       ELSE Raised(exc)

ProbeLatencies == {1, 40, 1900}

ProbeInputs ==
    probe \in [phase : {"call"}, fn : {"test_connection_health", "test_server_connection"},
               url : ProbeUrls, behaviour : ServerBehaviours, latency : ProbeLatencies,
               result : {Returned(FALSE)}]

ProbeCallHealth ==
    /\ probe.phase = "call" /\ probe.fn = "test_connection_health"
    /\ probe' = [probe EXCEPT
                   !.phase = "done",
                   !.result = test_connection_health(probe.url, probe.behaviour, probe.latency)]
    /\ UNCHANGED <<discVars, auxVars, connVars, pauseVars, rotVars>>

ProbeCallKiosk ==
    /\ probe.phase = "call" /\ probe.fn = "test_server_connection"
    /\ probe' = [probe EXCEPT
                   !.phase = "done",
                   !.result = test_server_connection(probe.url, probe.behaviour)]
    /\ UNCHANGED <<discVars, auxVars, connVars, pauseVars, rotVars>>

(***************************************************************************)
(* kiosk.py: tunables of the connection manager and of its blocking calls. *)
(***************************************************************************)
reconnect_rescan_threshold == 30
switch_check_interval == 15
switch_stable_window == 30
switch_cooldown == 120
local_failure_cooldown == 300
StartupScanTimeout == 10
RescanTimeout == 30
ScanRetrySleep == 5
NoServerSleep == 5
SwitchSleep == 1
LoopSleep == 2

(***************************************************************************)
(* Time.  time.time() is read in whole seconds on a grid of Granule        *)
(* seconds that starts at StartTime (a wall clock well past the epoch): a  *)
(* sleep of d seconds ends at the first grid point at least d seconds      *)
(* later.  Probes and connects answer within the same grid point.          *)
(***************************************************************************)
StartTime == 1000
Horizon == 60
Granule == 5
MaxEvq == 2
MaxClock == StartTime + Horizon

RoundUp(d) == ((d + Granule - 1) \div Granule) * Granule
SleepEnds(d) == { clock + RoundUp(d) }

(***************************************************************************)
(* kiosk.py: subnet test and candidate filter.                             *)
(***************************************************************************)
NoNet == "None"
HomeNet == "192.168.0.0/21"
OtherNet == "10.0.0.0/24"
LocalNets == {NoNet, HomeNet, OtherNet}

DotCount(host) == Cardinality({ i \in 1..Len(host) : host[i] = "." })

\* ipaddress.ip_address(host) accepts the host
IsIPv4(host) ==
    /\ Len(host) = 7
    /\ \A i \in {1, 3, 5, 7} : host[i] \in DigitLabels
    /\ \A i \in {2, 4, 6} : host[i] = "."

\* ipaddress.ip_address(host) in net, for an IPv4 host
InNetwork(host, net) ==
    \/ net = HomeNet /\ StartsWith(host, <<"192", ".", "168", ".">>)
                     /\ host[5] \in {"0", "1", "5", "7"}
    \/ net = OtherNet /\ StartsWith(host, <<"10", ".", "0", ".", "0", ".">>)

\* urllib.parse.urlparse(url).hostname
get_url_host(url) == IF HasScheme(url) THEN ParsedHost(url) ELSE <<>>

is_ip_in_local_net(ip, net) ==
    IF ip = <<>> \/ StartsWith(ip, <<"127", ".">>) THEN FALSE
    ELSE IF net = NoNet THEN FALSE
    ELSE IF ~IsIPv4(ip) THEN FALSE
    ELSE InNetwork(ip, net)

\* the loop body's decision for one candidate: TRUE when it is kept
FilterKeeps(c, require_same_subnet, avoid_local, net) ==
    IF c.type = "local" /\ avoid_local THEN FALSE
    ELSE IF c.type = "local" /\ require_same_subnet
    THEN LET host == get_url_host(c.url)
         IN ~( /\ host # <<>> /\ DotCount(host) = 3 /\ net # NoNet
               /\ IsIPv4(host) /\ ~InNetwork(host, net) )
    ELSE TRUE

filter_candidates_for_local_ip(candidates, has_local_ip, require_same_subnet, avoid_local, net) ==
    IF ~has_local_ip \/ candidates = <<>> THEN candidates
    ELSE SelectSeq(candidates, LAMBDA c : FilterKeeps(c, require_same_subnet, avoid_local, net))

NoCandidate == Candidate(NoUrl, None, 0, <<>>)

find_candidate_by_type(candidates, preferred_types) ==
    LET hit(t) == { i \in 1..Len(candidates) : candidates[i].type = t }
        first(t) == candidates[CHOOSE i \in hit(t) : \A j \in hit(t) : i <= j]
        ps == { k \in 1..Len(preferred_types) : hit(preferred_types[k]) # {} }
    IN IF ps = {} THEN NoCandidate
       ELSE first(preferred_types[CHOOSE k \in ps : \A j \in ps : k <= j])

\* get_server_candidates(server_url) with network_helper available
get_server_candidates == get_connection_candidates(disc.url, disc.server_name, TRUE, disc.net)

AvoidLocal == (clock - last_local_failure_time) < local_failure_cooldown

\* the filtered list of wait_for_server, of the rescan and of the optimisation check
FilteredCandidates ==
    filter_candidates_for_local_ip(get_server_candidates, TRUE, TRUE, AvoidLocal, local_net)

(***************************************************************************)
(* The socket.io client as main() and the handlers see it.                 *)
(***************************************************************************)
\* what a server does with a request at the moment it is made: it is up or it is not
Reachabilities == {"status200", "refused"}

\* sio.connect(url): TRUE when it returns, FALSE when it raises
ConnectSucceeds(url, behaviour) == behaviour = "status200" /\ ~sio_connected

\* the probe of the scans and of the optimisation check
ProbeOk(url, behaviour) == test_server_connection(url, behaviour).value

Event(kind) == [kind |-> kind]
Quiet == Event("none")
ProbeEvent(c, ok, by) == [kind |-> "probe", url |-> c.url, type |-> c.type, ok |-> ok, by |-> by]
SelectEvent(url, type, by) == [kind |-> "select", url |-> url, type |-> type, by |-> by]

\* a probe that finds a local candidate unreachable ends the run of successful probes
\* (run_since = 0: no run)
RunAfterProbe(c, ok) == IF c.type = "local" /\ ~ok THEN 0 ELSE run_since

(***************************************************************************)
(* find_best_server_url(candidates, timeout), entered with cands,          *)
(* scan_start and scan_timeout set and left through scan_ret.              *)
(***************************************************************************)
BeginScan(list, timeout, ret) ==
    /\ cands' = list
    /\ scan_start' = clock
    /\ scan_timeout' = timeout
    /\ scan_ret' = ret
    /\ scan_i' = 1
    /\ round_log' = <<>>
    /\ pc' = "scan_while"

\* the call has returned and its locals are gone
EndScan ==
    /\ cands' = <<>>
    /\ scan_i' = 1
    /\ scan_start' = 0
    /\ scan_timeout' = 0
    /\ scan_ret' = "none"
    /\ round_log' = <<>>

\* variant: the head of the list is returned, whichever candidate answered
ScanReturn_FirstListed(c) == <<cands[1].url, cands[1].type>>

\* line 1353: return (url, conn_type, hostname)
ScanReturn(c) == <<c.url, c.type>>

\* while time.time() - start < timeout:
ScanWhile ==
    /\ pc = "scan_while"
    /\ IF clock - scan_start < scan_timeout
       THEN /\ pc' = "scan_probe"
            /\ scan_i' = 1
            /\ round_log' = <<>>
            /\ ev' = Quiet
            /\ UNCHANGED <<new_url, new_type>>
       ELSE /\ pc' = scan_ret
            /\ new_url' = NoUrl
            /\ new_type' = None
            /\ ev' = Quiet
            /\ UNCHANGED <<scan_i, round_log>>
    /\ UNCHANGED <<discVars, probeVars, auxVars, envVars, sioVars, connGlobals, pauseVars, rotVars,
                   now, last_switch_check, cands, scan_start, scan_timeout, scan_ret,
                   local_candidate, confirmed, run_since>>

\* for candidate in candidates: if test_server_connection(url, timeout=3): return ...
ScanProbe ==
    /\ pc = "scan_probe"
    /\ scan_i <= Len(cands)
    /\ \E behaviour \in Reachabilities :
       LET c == cands[scan_i]
           ok == ProbeOk(c.url, behaviour)
       IN /\ round_log' = Append(round_log, [url |-> c.url, ok |-> ok])
          /\ ev' = ProbeEvent(c, ok, scan_ret)
          /\ confirmed' = IF ok THEN confirmed \cup {c.url} ELSE confirmed
          /\ run_since' = RunAfterProbe(c, ok)
          /\ IF ok
             THEN /\ new_url' = ScanReturn(c)[1]
                  /\ new_type' = ScanReturn(c)[2]
                  /\ pc' = scan_ret
                  /\ UNCHANGED scan_i
             ELSE /\ scan_i' = scan_i + 1
                  /\ UNCHANGED <<new_url, new_type, pc>>
    /\ UNCHANGED <<discVars, probeVars, auxVars, envVars, sioVars, connGlobals, pauseVars, rotVars,
                   now, last_switch_check, cands, scan_start, scan_timeout, scan_ret,
                   local_candidate>>

\* every candidate failed: sleep 5 s if the window is still open, then test the window
ScanRoundEnd ==
    /\ pc = "scan_probe"
    /\ scan_i > Len(cands)
    /\ IF clock - scan_start < scan_timeout
       THEN \E t \in SleepEnds(ScanRetrySleep) : t <= MaxClock /\ clock' = t
       ELSE clock' = clock
    /\ pc' = "scan_while"
    /\ ev' = Quiet
    /\ UNCHANGED <<discVars, probeVars, auxVars, local_net, sioVars, connGlobals, pauseVars, rotVars,
                   now, last_switch_check, cands, scan_i, scan_start, scan_timeout, scan_ret,
                   new_url, new_type, local_candidate, confirmed, run_since, round_log>>

(***************************************************************************)
(* main(): start-up (lines 1477-1510).                                     *)
(***************************************************************************)
scanVars == <<cands, scan_i, scan_start, scan_timeout, scan_ret, round_log>>

\* sio.connect(url) returned: the client is connected and the connect event is queued
SioConnected(url) ==
    /\ sio_connected' = TRUE
    /\ sio_url' = url
    /\ sio_reconnect' = FALSE
    /\ evq' = Append(evq, "connect")

\* sio.disconnect(): a connected client is closed for good and the event is queued
SioDisconnect ==
    IF sio_connected
    THEN /\ sio_connected' = FALSE
         /\ sio_reconnect' = FALSE
         /\ evq' = Append(evq, "disconnect")
    ELSE UNCHANGED <<sio_connected, sio_reconnect, evq>>

\* wait_for_server(): candidates, filter, then find_best_server_url(candidates, 10)
WaitForServer ==
    /\ pc = "wait_for_server"
    /\ BeginScan(FilteredCandidates, StartupScanTimeout, "wfs_ret")
    /\ ev' = Quiet
    /\ UNCHANGED <<discVars, probeVars, auxVars, envVars, sioVars, connGlobals, pauseVars,
                   rotVars, now, last_switch_check, new_url, new_type, local_candidate,
                   confirmed, run_since>>

\* wait_for_server(), lines 1401-1407, and the loop of line 1479
WfsReturn ==
    /\ pc = "wfs_ret"
    /\ IF new_url # NoUrl
       THEN /\ current_server_url' = new_url
            /\ connection_type' = new_type
            /\ pc' = "connect"
            /\ ev' = SelectEvent(new_url, new_type, "wfs_ret")
       ELSE /\ pc' = "wait_for_server"
            /\ ev' = Quiet
            /\ UNCHANGED <<current_server_url, connection_type>>
    /\ EndScan
    /\ new_url' = NoUrl
    /\ new_type' = None
    /\ UNCHANGED <<discVars, probeVars, auxVars, envVars, sioVars, pauseVars, rotVars,
                   last_disconnect_time, last_local_failure_time, last_switch_time,
                   local_stable_since, now, last_switch_check,
                   local_candidate, confirmed, run_since>>

\* lines 1488-1502: sio.connect, and on failure a scan of the unfiltered candidates;
\* on success the supervisory loop is entered and reads the time (line 1556)
Connect ==
    /\ pc = "connect"
    /\ \E behaviour \in Reachabilities :
       LET connect_url == IF current_server_url # NoUrl THEN current_server_url ELSE disc.url
       IN IF ConnectSucceeds(connect_url, behaviour)
          THEN /\ SioConnected(connect_url)
               /\ pc' = "main_loop"
               /\ now' = clock
               /\ ev' = Quiet
               /\ UNCHANGED scanVars
          ELSE /\ BeginScan(get_server_candidates, RescanTimeout, "retry_ret")
               /\ sio_url' = connect_url
               /\ ev' = Quiet
               /\ UNCHANGED <<sio_connected, sio_reconnect, evq, now>>
    /\ UNCHANGED <<discVars, probeVars, auxVars, envVars, connGlobals, pauseVars, rotVars,
                   last_switch_check, new_url, new_type, local_candidate,
                   confirmed, run_since>>

\* lines 1503-1510
RetryReturn ==
    /\ pc = "retry_ret"
    /\ IF new_url # NoUrl
       THEN /\ current_server_url' = new_url
            /\ connection_type' = new_type
            /\ ev' = SelectEvent(new_url, new_type, "retry_ret")
            /\ clock' = clock
       ELSE /\ \E t \in SleepEnds(NoServerSleep) : t <= MaxClock /\ clock' = t
            /\ ev' = Quiet
            /\ UNCHANGED <<current_server_url, connection_type>>
    /\ pc' = "connect"
    /\ EndScan
    /\ new_url' = NoUrl
    /\ new_type' = None
    /\ UNCHANGED <<discVars, probeVars, auxVars, local_net, sioVars, pauseVars, rotVars,
                   last_disconnect_time, last_local_failure_time, last_switch_time,
                   local_stable_since, now, last_switch_check,
                   local_candidate, confirmed, run_since>>

(***************************************************************************)
(* main(): the supervisory loop, rescan after a long disconnect            *)
(* (lines 1556-1599).                                                      *)
(***************************************************************************)
LoopTop ==
    /\ pc = "main_loop"
    /\ IF /\ last_disconnect_time > 0
          /\ ~sio_connected
          /\ now - last_disconnect_time >= reconnect_rescan_threshold
       THEN /\ BeginScan(FilteredCandidates, RescanTimeout, "rescan_ret")
            /\ ev' = Quiet
       ELSE /\ pc' = "opt_check"
            /\ ev' = Quiet
            /\ UNCHANGED scanVars
    /\ UNCHANGED <<discVars, probeVars, auxVars, envVars, sioVars, connGlobals, pauseVars,
                   rotVars, now, last_switch_check, new_url, new_type, local_candidate,
                   confirmed, run_since>>

\* lines 1575-1584 and 1596-1599
RescanReturn ==
    /\ pc = "rescan_ret"
    /\ IF new_url # NoUrl
       THEN /\ SioDisconnect
            /\ pc' = "rescan_connect"
            /\ ev' = Quiet
            /\ UNCHANGED last_disconnect_time
       ELSE /\ last_disconnect_time' = now
            /\ pc' = "opt_check"
            /\ ev' = Quiet
            /\ UNCHANGED <<sio_connected, sio_reconnect, evq>>
    /\ EndScan
    /\ UNCHANGED <<discVars, probeVars, auxVars, envVars, sio_url, pauseVars, rotVars,
                   current_server_url, connection_type, last_local_failure_time,
                   last_switch_time, local_stable_since, now, last_switch_check,
                   new_url, new_type, local_candidate, confirmed, run_since>>

\* lines 1586-1589 and 1592-1595
RescanConnect ==
    /\ pc = "rescan_connect"
    /\ current_server_url' = new_url
    /\ connection_type' = new_type
    /\ ev' = SelectEvent(new_url, new_type, "rescan_ret")
    /\ \E behaviour \in Reachabilities :
       IF ConnectSucceeds(new_url, behaviour)
       THEN /\ SioConnected(new_url)
            /\ pc' = "rescan_reset"
            /\ UNCHANGED last_disconnect_time
       ELSE /\ sio_url' = new_url
            /\ last_disconnect_time' = now
            /\ pc' = "opt_check"
            /\ UNCHANGED <<sio_connected, sio_reconnect, evq>>
    /\ new_url' = NoUrl
    /\ new_type' = None
    /\ UNCHANGED <<discVars, probeVars, auxVars, envVars, pauseVars, rotVars,
                   last_local_failure_time, last_switch_time, local_stable_since,
                   now, last_switch_check, scanVars, local_candidate,
                   confirmed, run_since>>

\* line 1591
RescanReset ==
    /\ pc = "rescan_reset"
    /\ last_disconnect_time' = 0
    /\ pc' = "opt_check"
    /\ ev' = Quiet
    /\ UNCHANGED <<discVars, probeVars, auxVars, envVars, sioVars, pauseVars, rotVars,
                   current_server_url, connection_type, last_local_failure_time,
                   last_switch_time, local_stable_since, now, last_switch_check, scanVars,
                   new_url, new_type, local_candidate, confirmed, run_since>>

(***************************************************************************)
(* main(): periodic connection optimisation (lines 1601-1647).             *)
(***************************************************************************)
\* variant: the stability window is not tested
ShouldSwitch_WindowIgnored(stable_for, since_switch) ==
    since_switch >= switch_cooldown

\* lines 1623 and 1625
ShouldSwitch(stable_for, since_switch) ==
    stable_for >= switch_stable_window /\ since_switch >= switch_cooldown

\* lines 1610-1616: the local candidate of the filtered list, if it is in the subnet
FindLocalCandidate ==
    LET lc == find_candidate_by_type(FilteredCandidates, <<"local", "localhost">>)
        host == get_url_host(lc.url)
    IN IF lc # NoCandidate /\ host # <<>> /\ ~is_ip_in_local_net(host, local_net)
       THEN NoCandidate ELSE lc

\* lines 1602-1616, and line 1645 when there is no candidate to probe
OptCheck ==
    /\ pc = "opt_check"
    /\ IF now - last_switch_check >= switch_check_interval
       THEN /\ last_switch_check' = now
            /\ IF connection_type # "local" /\ sio_connected
               THEN IF FindLocalCandidate # NoCandidate
                    THEN /\ local_candidate' = FindLocalCandidate
                         /\ pc' = "opt_probe"
                         /\ ev' = Quiet
                         /\ UNCHANGED <<local_stable_since, run_since>>
                    ELSE /\ local_stable_since' = 0
                         /\ run_since' = 0
                         /\ pc' = "loop_sleep"
                         /\ ev' = Quiet
                         /\ UNCHANGED local_candidate
               ELSE /\ pc' = "loop_sleep"
                    /\ ev' = Quiet
                    /\ UNCHANGED <<local_candidate, local_stable_since, run_since>>
       ELSE /\ pc' = "loop_sleep"
            /\ ev' = Quiet
            /\ UNCHANGED <<last_switch_check, local_candidate, local_stable_since, run_since>>
    /\ UNCHANGED <<discVars, probeVars, auxVars, envVars, sioVars, pauseVars, rotVars,
                   current_server_url, connection_type, last_disconnect_time,
                   last_local_failure_time, last_switch_time, now, scanVars,
                   new_url, new_type, confirmed>>

\* variant: a failed probe leaves the stability timer as it was
OptProbe_KeepsCredit ==
    /\ pc = "opt_probe"
    /\ \E behaviour \in Reachabilities :
       LET ok == ProbeOk(local_candidate.url, behaviour)
           since == IF local_stable_since = 0 THEN now ELSE local_stable_since
       IN /\ ev' = ProbeEvent(local_candidate, ok, "opt")
          /\ confirmed' = IF ok THEN confirmed \cup {local_candidate.url} ELSE confirmed
          /\ IF ok
             THEN /\ local_stable_since' = since
                  /\ run_since' = IF run_since = 0 THEN now ELSE run_since
                  /\ IF ShouldSwitch(now - since, now - last_switch_time)
                     THEN pc' = "switch_disconnect" /\ UNCHANGED local_candidate
                     ELSE pc' = "loop_sleep" /\ local_candidate' = NoCandidate
             ELSE /\ UNCHANGED local_stable_since
                  /\ run_since' = 0
                  /\ pc' = "loop_sleep"
                  /\ local_candidate' = NoCandidate
    /\ UNCHANGED <<discVars, probeVars, auxVars, envVars, sioVars, pauseVars, rotVars,
                   current_server_url, connection_type, last_disconnect_time,
                   last_local_failure_time, last_switch_time, now, last_switch_check,
                   scanVars, new_url, new_type>>

\* lines 1618-1627 and 1644-1645
OptProbe ==
    /\ pc = "opt_probe"
    /\ \E behaviour \in Reachabilities :
       LET ok == ProbeOk(local_candidate.url, behaviour)
           since == IF local_stable_since = 0 THEN now ELSE local_stable_since
       IN /\ ev' = ProbeEvent(local_candidate, ok, "opt")
          /\ confirmed' = IF ok THEN confirmed \cup {local_candidate.url} ELSE confirmed
          /\ IF ok
             THEN /\ local_stable_since' = since
                  /\ run_since' = IF run_since = 0 THEN now ELSE run_since
                  /\ IF ShouldSwitch(now - since, now - last_switch_time)
                     THEN pc' = "switch_disconnect" /\ UNCHANGED local_candidate
                     ELSE pc' = "loop_sleep" /\ local_candidate' = NoCandidate
             ELSE /\ local_stable_since' = 0
                  /\ run_since' = 0
                  /\ pc' = "loop_sleep"
                  /\ local_candidate' = NoCandidate
    /\ UNCHANGED <<discVars, probeVars, auxVars, envVars, sioVars, pauseVars, rotVars,
                   current_server_url, connection_type, last_disconnect_time,
                   last_local_failure_time, last_switch_time, now, last_switch_check,
                   scanVars, new_url, new_type>>

\* lines 1629-1630: sio.disconnect(); time.sleep(1)
SwitchDisconnect ==
    /\ pc = "switch_disconnect"
    /\ SioDisconnect
    /\ \E t \in SleepEnds(SwitchSleep) : t <= MaxClock /\ clock' = t
    /\ pc' = "switch_connect"
    /\ ev' = Quiet
    /\ run_since' = 0
    /\ UNCHANGED <<discVars, probeVars, auxVars, local_net, sio_url, connGlobals, pauseVars,
                   rotVars, now, last_switch_check, scanVars, new_url, new_type,
                   local_candidate, confirmed>>

\* lines 1631-1638
SwitchConnect ==
    /\ pc = "switch_connect"
    /\ current_server_url' = local_candidate.url
    /\ connection_type' = local_candidate.type
    /\ ev' = SelectEvent(local_candidate.url, local_candidate.type, "switch")
    /\ \E behaviour \in Reachabilities :
       IF ConnectSucceeds(local_candidate.url, behaviour)
       THEN /\ SioConnected(local_candidate.url)
            /\ last_switch_time' = clock
            /\ local_stable_since' = 0
            /\ pc' = "loop_sleep"
       ELSE /\ sio_url' = local_candidate.url
            /\ pc' = "switch_fallback"
            /\ UNCHANGED <<sio_connected, sio_reconnect, evq, last_switch_time,
                           local_stable_since>>
    /\ local_candidate' = NoCandidate
    /\ UNCHANGED <<discVars, probeVars, auxVars, envVars, pauseVars, rotVars,
                   last_disconnect_time, last_local_failure_time, now, last_switch_check,
                   scanVars, new_url, new_type, confirmed, run_since>>

\* lines 1639-1643: sio.connect(current_server_url), any failure swallowed
SwitchFallback ==
    /\ pc = "switch_fallback"
    /\ \E behaviour \in Reachabilities :
       IF ConnectSucceeds(current_server_url, behaviour)
       THEN SioConnected(current_server_url)
       ELSE /\ sio_url' = current_server_url
            /\ UNCHANGED <<sio_connected, sio_reconnect, evq>>
    /\ pc' = "loop_sleep"
    /\ ev' = Quiet
    /\ UNCHANGED <<discVars, probeVars, auxVars, envVars, connGlobals, pauseVars, rotVars,
                   now, last_switch_check, scanVars, new_url, new_type, local_candidate,
                   confirmed, run_since>>

\* line 1647: sio.sleep(2), and the next iteration's now = time.time() (line 1556)
LoopSleepStep ==
    /\ pc = "loop_sleep"
    /\ \E t \in SleepEnds(LoopSleep) : t <= MaxClock /\ clock' = t /\ now' = t
    /\ pc' = "main_loop"
    /\ ev' = Quiet
    /\ UNCHANGED <<discVars, probeVars, auxVars, local_net, sioVars, connGlobals, pauseVars,
                   rotVars, last_switch_check, scanVars, new_url, new_type,
                   local_candidate, confirmed, run_since>>

(***************************************************************************)
(* Socket.IO event handlers connect() and disconnect() (lines 858-894),    *)
(* run one at a time in the order the events were raised.                  *)
(***************************************************************************)
StickyReasons == {"manual", "admin", "login"}

HandleConnect ==
    /\ evq # <<>> /\ Head(evq) = "connect"
    /\ evq' = Tail(evq)
    /\ last_disconnect_time' = 0
    /\ IF admin_mode_active
       THEN /\ admin_mode_active' = FALSE
            /\ paused' = FALSE
            /\ pause_reason' = None
       ELSE /\ paused' = IF pause_reason \notin StickyReasons /\ ~last_paused_before_disconnect
                         THEN FALSE ELSE paused
            /\ UNCHANGED <<admin_mode_active, pause_reason>>
    /\ ev' = Quiet
    /\ UNCHANGED <<discVars, probeVars, auxVars, envVars, sio_connected, sio_url, sio_reconnect,
                   current_server_url, connection_type, last_local_failure_time,
                   last_switch_time, local_stable_since, mainVars, confirmed, run_since,
                   round_log, last_paused_before_disconnect, rotVars>>

HandleDisconnect ==
    /\ evq # <<>> /\ Head(evq) = "disconnect"
    /\ evq' = Tail(evq)
    /\ last_disconnect_time' = clock
    /\ last_paused_before_disconnect' = paused
    /\ pause_reason' = IF ~paused THEN None ELSE pause_reason
    /\ last_local_failure_time' = IF connection_type = "local" THEN clock
                                  ELSE last_local_failure_time
    /\ ev' = Quiet
    /\ UNCHANGED <<discVars, probeVars, auxVars, envVars, sio_connected, sio_url, sio_reconnect,
                   current_server_url, connection_type, last_switch_time, local_stable_since,
                   mainVars, confirmed, run_since, round_log, paused, admin_mode_active,
                   rotVars>>

(***************************************************************************)
(* Environment: the transport drops, the client's background reconnection  *)
(* gets through.                                                           *)
(***************************************************************************)
SioDrop ==
    /\ sio_connected
    /\ Len(evq) < MaxEvq
    /\ sio_connected' = FALSE
    /\ sio_reconnect' = TRUE
    /\ evq' = Append(evq, "disconnect")
    /\ ev' = Quiet
    /\ UNCHANGED <<discVars, probeVars, auxVars, envVars, sio_url, connGlobals, mainVars,
                   confirmed, run_since, round_log, pauseVars, rotVars>>

SioAutoReconnect ==
    /\ ~sio_connected /\ sio_reconnect
    /\ Len(evq) < MaxEvq
    /\ SioConnected(sio_url)
    /\ ev' = Quiet
    /\ UNCHANGED <<discVars, probeVars, auxVars, envVars, connGlobals, mainVars,
                   confirmed, run_since, round_log, pauseVars, rotVars>>

(***************************************************************************)
(* The connection manager: configuration, initial state, specification.    *)
(***************************************************************************)
ConnNet == [ts_running |-> TRUE, backend_active |-> TRUE, peers |-> <<PeerA>>, dns |-> NoIP]
ConnConfig == [url |-> LocalServerUrl, server_name |-> NoName, auto_scan |-> TRUE,
               net |-> ConnNet, result |-> <<>>, done |-> TRUE]

\* globals of lines 88-98 other than the page list and the index into it
RotRest ==
    /\ sync_enabled = TRUE
    /\ browser_ready = FALSE
    /\ sync_at = NoTime
    /\ sync_target_page_id = NoPageId
    /\ sync_server_time = NoTime
    /\ sync_received_at = NoTime
    /\ hpc = "idle"
    /\ spc = "top"
    /\ wait_start = 0
    /\ wait_duration = 0

RotIdle ==
    /\ pages = <<>>
    /\ current_index = 0
    /\ reset_timer = FALSE
    /\ RotRest

\* globals of lines 99-100, main()'s last_crash (line 1517), no call under study
\* nobody holds shot_lock
NoCaller == 0
\* the threads that call upload_screenshot (the timers of schedule_screenshot)
MaxCallers == 2
Callers == 1..MaxCallers

\* the page ids a counter is kept for
CountedIds == {1, 2, 3}

\* line 123: page_switch_counts = {}, a missing key reading as 0 (lines 751-752)
RefreshIdle ==
    /\ page_switch_counts = [i \in CountedIds |-> 0]
    /\ arrivals = [i \in CountedIds |-> 0]

\* no screenshot was taken yet and nobody is inside upload_screenshot
ShotIdle ==
    /\ last_screenshot_time = 0
    /\ shot_lock = NoCaller
    /\ shot_pc = [c \in Callers |-> "idle"]
    /\ attempts = <<>>

AuxIdle ==
    /\ safe_mode_until = 0
    /\ crash_times = <<>>
    /\ last_crash = 0
    /\ browser_exited = FALSE
    /\ launched = "none"
    /\ switcher_key = "none"
    /\ exits = <<>>
    /\ calc = [phase |-> "idle"]
    /\ ShotIdle
    /\ RefreshIdle

PauseIdle ==
    /\ paused = FALSE
    /\ pause_reason = None
    /\ admin_mode_active = FALSE
    /\ last_paused_before_disconnect = FALSE

\* connection globals and main()'s locals other than the connection itself
ConnRest ==
    /\ sio_reconnect = FALSE
    /\ evq = <<>>
    /\ last_disconnect_time = 0
    /\ last_local_failure_time = 0
    /\ last_switch_time = 0
    /\ local_stable_since = 0
    /\ now = 0
    /\ last_switch_check = 0
    /\ cands = <<>>
    /\ scan_i = 1
    /\ scan_start = 0
    /\ scan_timeout = 0
    /\ scan_ret = "none"
    /\ new_url = NoUrl
    /\ new_type = None
    /\ local_candidate = NoCandidate
    /\ ev = Event("init")
    /\ confirmed = {}
    /\ run_since = 0
    /\ round_log = <<>>

ConnGlobalsInit ==
    /\ sio_connected = FALSE
    /\ sio_url = NoUrl
    /\ current_server_url = NoUrl
    /\ connection_type = "unknown"
    /\ ConnRest

\* the connection manager not started
ConnIdle ==
    /\ clock = 0
    /\ local_net = NoNet
    /\ pc = "none"
    /\ ConnGlobalsInit

ConnInit ==
    /\ disc = ConnConfig
    /\ ProbeIdle
    /\ clock = StartTime
    /\ local_net \in LocalNets
    /\ pc = "wait_for_server"
    /\ ConnGlobalsInit
    /\ PauseIdle
    /\ RotIdle
    /\ AuxIdle

ConnNext ==
    \/ WaitForServer \/ ScanWhile \/ ScanProbe \/ ScanRoundEnd \/ WfsReturn
    \/ Connect \/ RetryReturn
    \/ LoopTop \/ RescanReturn \/ RescanConnect \/ RescanReset
    \/ OptCheck \/ OptProbe \/ SwitchDisconnect \/ SwitchConnect \/ SwitchFallback
    \/ LoopSleepStep
    \/ HandleConnect \/ HandleDisconnect
    \/ SioDrop \/ SioAutoReconnect

SpecConn == ConnInit /\ [][ConnNext]_vars

(***************************************************************************)
(* The connection manager over a transport that never fails (SpecSwitch):  *)
(* every disconnect event is raised by a sio.disconnect() of main().  The  *)
(* one disconnection there can be, after a failed switch, does not last    *)
(* reconnect_rescan_threshold within the horizon, so no rescan is made.    *)
(***************************************************************************)
SwitchNext ==
    \/ WaitForServer \/ ScanWhile \/ ScanProbe \/ ScanRoundEnd \/ WfsReturn
    \/ Connect \/ RetryReturn
    \/ LoopTop
    \/ OptCheck \/ OptProbe \/ SwitchDisconnect \/ SwitchConnect \/ SwitchFallback
    \/ LoopSleepStep
    \/ HandleConnect \/ HandleDisconnect

SpecSwitch == ConnInit /\ [][SwitchNext]_vars

(***************************************************************************)
(* One scanning pass of wait_for_server() over several configurations.     *)
(***************************************************************************)
\* a symbolic host with a named peer: the rules emit the overlay peer before the
\* address DNS gives
NamedHostConfig ==
    [url |-> <<"http://", "kiosk-server", ":", "5000">>, server_name |-> <<"pi-server">>,
     auto_scan |-> TRUE,
     net |-> [ts_running |-> TRUE, backend_active |-> TRUE, peers |-> <<PeerA>>,
              dns |-> <<"192", ".", "168", ".", "1", ".", "5">>],
     result |-> <<>>, done |-> TRUE]

\* a public address and two online peers
TwoPeerConfig ==
    [url |-> <<"http://", "8", ".", "8", ".", "8", ".", "8", ":", "8080">>,
     server_name |-> NoName, auto_scan |-> TRUE,
     net |-> [ts_running |-> TRUE, backend_active |-> TRUE, peers |-> <<PeerB, PeerA>>,
              dns |-> NoIP],
     result |-> <<>>, done |-> TRUE]

\* an unknown host with the overlay stopped: the last resort only
LastResortConfig ==
    [url |-> <<"https://", "kiosk-server", "/">>, server_name |-> NoName,
     auto_scan |-> TRUE,
     net |-> [ts_running |-> FALSE, backend_active |-> FALSE, peers |-> <<>>, dns |-> NoIP],
     result |-> <<>>, done |-> TRUE]

ScanConfigs == {ConnConfig, NamedHostConfig, TwoPeerConfig, LastResortConfig}

ScanInit ==
    /\ disc \in ScanConfigs
    /\ ProbeIdle
    /\ clock = StartTime
    /\ local_net \in LocalNets
    /\ pc = "wait_for_server"
    /\ ConnGlobalsInit
    /\ PauseIdle
    /\ RotIdle
    /\ AuxIdle

ScanNext == WaitForServer \/ ScanWhile \/ ScanProbe \/ ScanRoundEnd

SpecScan == ScanInit /\ [][ScanNext]_vars

(***************************************************************************)
(* kiosk.py: page rotation.  A page is its id and its duration; the event  *)
(* handlers run one at a time on the client's thread, switcher_thread runs *)
(* beside them.                                                            *)
(***************************************************************************)
\* a page of the list: refresh is off where the key is missing (line 746), and
\* refresh_interval is 1 where it is missing (line 748)
Page(id, duration) == [id |-> id, duration |-> duration, refresh |-> FALSE,
                       refresh_interval |-> 1]
\* a page with auto-refresh on every n-th arrival
RefreshPage(id, duration, n) == [id |-> id, duration |-> duration, refresh |-> TRUE,
                                 refresh_interval |-> n]
PageA == Page(1, 2)
PageB == Page(2, 1)
PageC == Page(3, 2)
PageLists == { <<>>, <<PageB>>, <<PageA, PageB, PageC>> }
PageIds == {2, 3, 4}
NoPage == Page(NoPageId, 0)

RotHorizon == 3

get_current_page ==
    IF pages = <<>> \/ current_index >= Len(pages) THEN NoPage
    ELSE pages[current_index + 1]

\* compute_sync_target, lines 840-843: int(p.get('duration', 30)), and 30 where int()
\* raises
DurationOf(p) == IF p.duration = Text THEN 30 ELSE p.duration

RECURSIVE SumDurations(_, _)
SumDurations(ps, n) == IF n = 0 THEN 0 ELSE SumDurations(ps, n - 1) + DurationOf(ps[n])

\* compute_sync_target with the offset taken without the wrap (now_ts instead of
\* now_ts % total)
compute_sync_target_NoWrap(ps, now_ts) ==
    IF ps = <<>> \/ SumDurations(ps, Len(ps)) <= 0 THEN <<NoIndex, 1>>
    ELSE LET hit == { i \in 1..Len(ps) : now_ts < SumDurations(ps, i) }
         IN IF hit = {} THEN <<0, DurationOf(ps[1])>>
            ELSE LET i == CHOOSE i \in hit : \A j \in hit : i <= j
                 IN <<i - 1, SumDurations(ps, i) - now_ts>>

\* compute_sync_target(now_ts) over the page list ps: <<index, seconds remaining>>
compute_sync_target(ps, now_ts) ==
    IF ps = <<>> \/ SumDurations(ps, Len(ps)) <= 0 THEN <<NoIndex, 1>>
    ELSE LET offset == now_ts % SumDurations(ps, Len(ps))
             hit == { i \in 1..Len(ps) : offset < SumDurations(ps, i) }
         IN IF hit = {} THEN <<0, DurationOf(ps[1])>>
            ELSE LET i == CHOOSE i \in hit : \A j \in hit : i <= j
                 IN <<i - 1, SumDurations(ps, i) - offset>>

\* tabs that have a keystroke of their own, ctrl+1 .. ctrl+9 (lines 793 and 820)
DirectTabs == 9

\* lines 801-804 and 827-830: ctrl+Tab until the index stands on idx
RECURSIVE CycleTo(_, _, _)
CycleTo(ci, idx, n) == IF ci = idx THEN ci ELSE CycleTo((ci + 1) % n, idx, n)

\* one ctrl+Tab whatever the distance
GotoIndex_SingleStep(ps, ci, rt, idx) ==
    IF ps = <<>> \/ idx = NoIndex THEN <<ci, rt, "none">>
    ELSE IF idx = ci THEN <<ci, rt, "none">>
    ELSE <<(ci + 1) % Len(ps), TRUE, "ctrl+Tab">>

\* without the early return of lines 815-818
GotoIndex_NoEarlyReturn(ps, ci, rt, idx) ==
    IF ps = <<>> \/ idx = NoIndex THEN <<ci, rt, "none">>
    ELSE IF idx + 1 >= 1 /\ idx + 1 <= DirectTabs THEN <<idx, TRUE, "ctrl+N">>
    ELSE <<CycleTo(ci, idx, Len(ps)), TRUE, "ctrl+Tab">>

\* goto_page_index(idx) from index ci with reset flag rt over the list ps:
\* <<current_index, reset_timer, keystroke sent>> when it returns
GotoIndex(ps, ci, rt, idx) ==
    IF ps = <<>> \/ idx = NoIndex THEN <<ci, rt, "none">>
    ELSE IF idx = ci THEN <<ci, rt, "none">>
    ELSE IF idx + 1 >= 1 /\ idx + 1 <= DirectTabs THEN <<idx, TRUE, "ctrl+N">>
    ELSE <<CycleTo(ci, idx, Len(ps)), TRUE, "ctrl+Tab">>

\* goto_page_id(page_id): lines 785-787 find the first page of that id, the rest is
\* the body of goto_page_index
GotoId(ps, ci, rt, page_id) ==
    LET hit == { i \in 1..Len(ps) : ps[i].id = page_id }
    IN IF ps = <<>> \/ hit = {} THEN <<ci, rt, "none">>
       ELSE GotoIndex(ps, ci, rt, (CHOOSE i \in hit : \A j \in hit : i <= j) - 1)

goto_page_index(idx) == GotoIndex(pages, current_index, reset_timer, idx)

goto_page_id(page_id) == GotoId(pages, current_index, reset_timer, page_id)

\* get_enabled_urls(): the tabs of the pages, or the default image alone when there
\* is no page to show
get_enabled_urls == IF pages = <<>> THEN "fallback" ELSE "pages"

\* on_pages_list, line 906: the legacy list replaces pages; with sync disabled the
\* handler goes on to reset the index and relaunch
RecvPagesListFrom(lists) ==
    /\ hpc = "idle"
    /\ \E data \in lists : pages' = data
    /\ hpc' = IF ~sync_enabled THEN "list_reset" ELSE "idle"
    /\ UNCHANGED <<discVars, probeVars, auxVars, connVars, pauseVars, current_index, sync_enabled,
                   reset_timer, browser_ready, syncVars, switcherVars>>

RecvPagesList == RecvPagesListFrom(PageLists)

\* the same handler where the server has two pages
RecvTwoPageList == RecvPagesListFrom({<<PageA, PageB>>})

\* on_pages_list, line 908, and launch_browser_with_tabs up to its sleep (line 534)
PagesListReset ==
    /\ hpc = "list_reset"
    /\ current_index' = 0
    /\ browser_ready' = FALSE
    /\ launched' = get_enabled_urls
    /\ browser_exited' = FALSE
    /\ hpc' = "launch"
    /\ UNCHANGED <<discVars, probeVars, safe_mode_until, crash_times, last_crash, exits,
                   switcher_key, calc, shotVars, refreshVars, connVars, pauseVars, pages, sync_enabled,
                   reset_timer, syncVars, switcherVars>>

\* on_pages_sync that takes the receipt time from the first message only
RecvPagesSyncFrom_KeepsReceipt(payloads) ==
    /\ hpc = "idle"
    /\ \E data \in payloads :
          /\ pages' = data.pages
          /\ sync_enabled' = data.sync_enabled
          /\ sync_server_time' = data.server_time
          /\ calc' = IF calc.phase = "wire"
                     THEN [phase |-> "wire", server_time |-> data.server_time, at |-> clock]
                     ELSE calc
    /\ sync_received_at' = IF sync_received_at = NoTime THEN clock ELSE sync_received_at
    /\ hpc' = "sync_reset"
    /\ UNCHANGED <<discVars, probeVars, safeVars, switcher_key, shotVars, refreshVars, connVars,
                   pauseVars, current_index, reset_timer, browser_ready, sync_at,
                   sync_target_page_id, switcherVars>>

\* on_pages_sync, lines 922-925; where the message on the wire is watched (calc.phase
\* is "wire"), calc notes the server_time it carried and when it was handled
RecvPagesSyncFrom(payloads) ==
    /\ hpc = "idle"
    /\ \E data \in payloads :
          /\ pages' = data.pages
          /\ sync_enabled' = data.sync_enabled
          /\ sync_server_time' = data.server_time
          /\ calc' = IF calc.phase = "wire"
                     THEN [phase |-> "wire", server_time |-> data.server_time, at |-> clock]
                     ELSE calc
    /\ sync_received_at' = clock
    /\ hpc' = "sync_reset"
    /\ UNCHANGED <<discVars, probeVars, safeVars, switcher_key, shotVars, refreshVars, connVars,
                   pauseVars, current_index, reset_timer, browser_ready, sync_at,
                   sync_target_page_id, switcherVars>>

PagesSyncPayloads == [pages : PageLists, sync_enabled : BOOLEAN, server_time : {NoTime, 1}]
RecvPagesSync == RecvPagesSyncFrom(PagesSyncPayloads)

\* the same handler where the server has one page and time-locked rotation
OnePagePayloads == {[pages |-> <<PageB>>, sync_enabled |-> TRUE, server_time |-> 1]}
RecvOnePageSync == RecvPagesSyncFrom(OnePagePayloads)

\* the same handler where the server has two pages
TwoPagePayloads == [pages : {<<PageA, PageB>>}, sync_enabled : BOOLEAN, server_time : {1}]
RecvTwoPageSync == RecvPagesSyncFrom(TwoPagePayloads)

\* on_pages_sync, lines 927-928, and launch_browser_with_tabs up to its sleep
PagesSyncReset ==
    /\ hpc = "sync_reset"
    /\ current_index' = 0
    /\ reset_timer' = TRUE
    /\ browser_ready' = FALSE
    /\ launched' = get_enabled_urls
    /\ browser_exited' = FALSE
    /\ hpc' = "launch"
    /\ UNCHANGED <<discVars, probeVars, safe_mode_until, crash_times, last_crash, exits,
                   switcher_key, calc, shotVars, refreshVars, connVars, pauseVars, pages, sync_enabled, syncVars,
                   switcherVars>>

\* launch_browser_with_tabs, lines 596-597, after the tabs had 3 s to load
LaunchDone ==
    /\ hpc = "launch"
    /\ current_index' = 0
    /\ browser_ready' = TRUE
    /\ hpc' = "idle"
    /\ UNCHANGED <<discVars, probeVars, auxVars, connVars, pauseVars, pages, sync_enabled,
                   reset_timer, syncVars, switcherVars>>

\* on_control: next (lines 984-989)
ControlNext ==
    /\ hpc = "idle"
    /\ current_index' = IF pages # <<>> THEN (current_index + 1) % Len(pages) ELSE 0
    /\ reset_timer' = TRUE
    /\ UNCHANGED <<discVars, probeVars, auxVars, connVars, pauseVars, pages, sync_enabled,
                   browser_ready, hpc, syncVars, switcherVars>>

\* on_control: prev (lines 991-996)
ControlPrev ==
    /\ hpc = "idle"
    /\ current_index' = IF pages # <<>> THEN (current_index - 1) % Len(pages) ELSE 0
    /\ reset_timer' = TRUE
    /\ UNCHANGED <<discVars, probeVars, auxVars, connVars, pauseVars, pages, sync_enabled,
                   browser_ready, hpc, syncVars, switcherVars>>

\* on_control: goto (lines 1003-1006)
ControlGoto ==
    /\ hpc = "idle"
    /\ \E page_id \in PageIds \cup {NoPageId} :
          IF page_id # NoPageId
          THEN /\ current_index' = goto_page_id(page_id)[1]
               /\ reset_timer' = goto_page_id(page_id)[2]
          ELSE UNCHANGED <<current_index, reset_timer>>
    /\ UNCHANGED <<discVars, probeVars, auxVars, connVars, pauseVars, pages, sync_enabled,
                   browser_ready, hpc, syncVars, switcherVars>>

\* on_control: pause (lines 974-977)
ControlPause ==
    /\ hpc = "idle"
    /\ paused' = TRUE
    /\ pause_reason' = "manual"
    /\ UNCHANGED <<discVars, probeVars, auxVars, connVars, admin_mode_active,
                   last_paused_before_disconnect, rotVars>>

\* on_control: resume (lines 979-982)
ControlResume ==
    /\ hpc = "idle"
    /\ paused' = FALSE
    /\ pause_reason' = None
    /\ UNCHANGED <<discVars, probeVars, auxVars, connVars, admin_mode_active,
                   last_paused_before_disconnect, rotVars>>

\* on_control: login_mode (lines 1008-1017)
ControlLoginMode ==
    /\ hpc = "idle"
    /\ paused' = TRUE
    /\ pause_reason' = "login"
    /\ UNCHANGED <<discVars, probeVars, auxVars, connVars, admin_mode_active,
                   last_paused_before_disconnect, rotVars>>

\* on_control: exit_login_mode (lines 1019-1024)
ControlExitLoginMode ==
    /\ hpc = "idle"
    /\ paused' = FALSE
    /\ pause_reason' = None
    /\ UNCHANGED <<discVars, probeVars, auxVars, connVars, admin_mode_active,
                   last_paused_before_disconnect, rotVars>>

\* on_control: admin_mode (lines 1026-1038): the window is minimised, the pause
\* state is left as it is
ControlAdminMode ==
    /\ hpc = "idle"
    /\ admin_mode_active' = TRUE
    /\ UNCHANGED <<discVars, probeVars, auxVars, connVars, paused, pause_reason,
                   last_paused_before_disconnect, rotVars>>

\* on_control: exit_admin_mode (lines 1040-1046)
ControlExitAdminMode ==
    /\ hpc = "idle"
    /\ paused' = FALSE
    /\ pause_reason' = None
    /\ admin_mode_active' = FALSE
    /\ UNCHANGED <<discVars, probeVars, auxVars, connVars, last_paused_before_disconnect,
                   rotVars>>

\* on_sync (lines 944-963): sync_at is the payload's time when it is a number and
\* time.time() + 2.0 when it is not
RecvSyncFrom(payloads) ==
    /\ hpc = "idle"
    /\ \E data \in payloads :
          IF data.sync_off
          THEN /\ sync_enabled' = FALSE
               /\ UNCHANGED <<sync_at, sync_target_page_id, paused, pause_reason>>
          ELSE /\ sync_at' = IF data.at_is_number THEN clock + 1 ELSE clock + 2
               /\ sync_target_page_id' = data.page_id
               /\ paused' = TRUE
               /\ pause_reason' = "sync"
               /\ UNCHANGED sync_enabled
    /\ UNCHANGED <<discVars, probeVars, auxVars, connVars, admin_mode_active,
                   last_paused_before_disconnect, pages, current_index, reset_timer,
                   browser_ready, hpc, sync_server_time, sync_received_at, switcherVars>>

SyncPayloads == [sync_off : BOOLEAN, at_is_number : BOOLEAN, page_id : PageIds \cup {NoPageId}]
RecvSync == RecvSyncFrom(SyncPayloads)

\* the same handler for a sync that names no page
PlainSyncPayloads == {[sync_off |-> FALSE, at_is_number |-> TRUE, page_id |-> NoPageId]}
RecvPlainSync == RecvSyncFrom(PlainSyncPayloads)

\* switcher_thread, lines 689-698: a scheduled sync fires once its time has come; the
\* thread's pause_reason is a local name, the global keeps its value
SwitcherSyncFire ==
    /\ spc = "top"
    /\ ~(clock < safe_mode_until)
    /\ IF paused /\ browser_ready /\ sync_at # NoTime /\ clock >= sync_at
       THEN /\ IF sync_target_page_id # NoPageId
               THEN /\ current_index' = goto_page_id(sync_target_page_id)[1]
                    /\ reset_timer' = goto_page_id(sync_target_page_id)[2]
                    /\ switcher_key' = goto_page_id(sync_target_page_id)[3]
               ELSE /\ UNCHANGED <<current_index, reset_timer>>
                    /\ switcher_key' = "none"
            /\ paused' = FALSE
            /\ sync_at' = NoTime
            /\ sync_target_page_id' = NoPageId
       ELSE /\ UNCHANGED <<current_index, reset_timer, paused, sync_at, sync_target_page_id>>
            /\ switcher_key' = "none"
    /\ spc' = "gate"
    /\ UNCHANGED <<discVars, probeVars, safeVars, calc, shotVars, refreshVars, connVars, pause_reason,
                   admin_mode_active, last_paused_before_disconnect, pages, sync_enabled,
                   browser_ready, hpc, sync_server_time, sync_received_at, wait_start,
                   wait_duration>>

\* switcher_thread, lines 686-688: in safe mode the loop sleeps and starts over
SwitcherSafeSleep ==
    /\ spc = "top"
    /\ clock < safe_mode_until
    /\ switcher_key' = "none"
    /\ UNCHANGED <<discVars, probeVars, safeVars, calc, shotVars, refreshVars, connVars, pauseVars, rotVars>>

SyncMode == sync_enabled /\ sync_server_time # NoTime /\ sync_received_at # NoTime

\* line 706: the server's time as the device reckons it,
\* sync_server_time + (time.time() - sync_received_at)
CorrectedTime == sync_server_time + (clock - sync_received_at)

\* switcher_thread, lines 699-702 and 716-719: nothing to show, sleep and start over
SwitcherIdle ==
    /\ spc = "gate"
    /\ \/ paused \/ pages = <<>> \/ ~browser_ready
       \/ ~SyncMode /\ get_current_page = NoPage
    /\ spc' = "top"
    /\ switcher_key' = "none"
    /\ UNCHANGED <<discVars, probeVars, safeVars, calc, shotVars, refreshVars, connVars, pauseVars, pages,
                   current_index, sync_enabled, reset_timer, browser_ready, hpc, syncVars,
                   wait_start, wait_duration>>

\* switcher_thread, lines 704-712: time-locked mode follows the server's clock
SwitcherSyncCheck ==
    /\ spc = "gate"
    /\ ~(paused \/ pages = <<>> \/ ~browser_ready)
    /\ SyncMode
    /\ sync_server_time # Text
    /\ LET idx == compute_sync_target(pages, CorrectedTime)[1]
       IN IF idx # NoIndex /\ idx # current_index
          THEN /\ current_index' = goto_page_index(idx)[1]
               /\ reset_timer' = goto_page_index(idx)[2]
               /\ switcher_key' = goto_page_index(idx)[3]
          ELSE /\ UNCHANGED <<current_index, reset_timer>>
               /\ switcher_key' = "none"
    /\ spc' = "top"
    /\ UNCHANGED <<discVars, probeVars, safeVars, calc, shotVars, refreshVars, connVars, pauseVars, pages,
                   sync_enabled, browser_ready, hpc, syncVars, wait_start, wait_duration>>

\* switcher_thread, lines 714-725: the page's duration wait begins
SwitcherStartPage ==
    /\ spc = "gate"
    /\ ~(paused \/ pages = <<>> \/ ~browser_ready)
    /\ ~SyncMode
    /\ get_current_page # NoPage
    /\ wait_start' = clock
    /\ wait_duration' = get_current_page.duration
    /\ spc' = "wait"
    /\ switcher_key' = "none"
    /\ UNCHANGED <<discVars, probeVars, safeVars, calc, shotVars, refreshVars, connVars, pauseVars, pages,
                   current_index, sync_enabled, reset_timer, browser_ready, hpc, syncVars>>

\* switcher_thread, lines 727-735: the wait is cut short by reset_timer or by a pause
SwitcherWaitBroken ==
    /\ spc = "wait"
    /\ paused \/ reset_timer
    /\ reset_timer' = IF ~paused THEN FALSE ELSE reset_timer
    /\ spc' = "top"
    /\ wait_start' = 0
    /\ wait_duration' = 0
    /\ switcher_key' = "none"
    /\ UNCHANGED <<discVars, probeVars, safeVars, calc, shotVars, refreshVars, connVars, pauseVars, pages,
                   current_index, sync_enabled, browser_ready, hpc, syncVars>>

\* lines 741-742: the index after ctrl+Tab
NextIndex == (current_index + 1) % Len(pages)

\* line 745: get_current_page() after the advance
NewPage == IF pages = <<>> THEN NoPage ELSE pages[NextIndex + 1]

\* lines 746-756: the page arrived at has auto-refresh on and its counter, incremented,
\* reaches refresh_interval
RefreshDue_EveryArrival == NewPage # NoPage /\ NewPage.refresh

RefreshDue ==
    /\ NewPage # NoPage /\ NewPage.refresh
    /\ page_switch_counts[NewPage.id] + 1 >= NewPage.refresh_interval

\* switcher_thread, lines 731-763: the duration has elapsed, on to the next tab, and
\* a refresh of the page arrived at when one is due
SwitcherAdvance ==
    /\ spc = "wait"
    /\ ~paused /\ ~reset_timer
    /\ wait_duration # Text
    /\ clock - wait_start >= wait_duration
    /\ IF pages # <<>>
       THEN /\ current_index' = NextIndex
            /\ IF NewPage # NoPage /\ NewPage.refresh
               THEN /\ page_switch_counts' =
                         [page_switch_counts EXCEPT
                            ![NewPage.id] = IF RefreshDue THEN 0 ELSE @ + 1]
                    /\ arrivals' = [arrivals EXCEPT ![NewPage.id] = @ + 1]
                    /\ switcher_key' = IF RefreshDue THEN "ctrl+Tab, ctrl+r"
                                       ELSE "ctrl+Tab"
               ELSE /\ switcher_key' = "ctrl+Tab"
                    /\ UNCHANGED refreshVars
       ELSE /\ switcher_key' = "none"
            /\ UNCHANGED <<current_index, refreshVars>>
    /\ spc' = "top"
    /\ wait_start' = 0
    /\ wait_duration' = 0
    /\ UNCHANGED <<discVars, probeVars, safeVars, calc, shotVars, connVars, pauseVars, pages,
                   sync_enabled, reset_timer, browser_ready, hpc, syncVars>>

\* switcher_thread, line 706: a server_time that is no number cannot be added to,
\* the TypeError is caught nowhere and ends the thread
SwitcherSyncRaises ==
    /\ spc = "gate"
    /\ ~(paused \/ pages = <<>> \/ ~browser_ready)
    /\ SyncMode
    /\ sync_server_time = Text
    /\ spc' = "dead"
    /\ switcher_key' = "none"
    /\ UNCHANGED <<discVars, probeVars, safeVars, calc, shotVars, refreshVars, connVars, pauseVars, pages,
                   current_index, sync_enabled, reset_timer, browser_ready, hpc, syncVars,
                   wait_start, wait_duration>>

\* switcher_thread, line 732: elapsed >= duration with a duration that is no number,
\* the TypeError ends the thread
SwitcherWaitRaises ==
    /\ spc = "wait"
    /\ ~paused /\ ~reset_timer
    /\ wait_duration = Text
    /\ spc' = "dead"
    /\ switcher_key' = "none"
    /\ UNCHANGED <<discVars, probeVars, safeVars, calc, shotVars, refreshVars, connVars, pauseVars, pages,
                   current_index, sync_enabled, reset_timer, browser_ready, hpc, syncVars,
                   wait_start, wait_duration>>

\* a second passes
RotTick ==
    /\ clock < StartTime + RotHorizon
    /\ clock' = clock + 1
    /\ UNCHANGED <<discVars, probeVars, auxVars, local_net, sioVars, connGlobals, mainVars,
                   histVars, pauseVars, rotVars>>

RotInit ==
    /\ DiscIdle
    /\ ProbeIdle
    /\ clock = StartTime
    /\ local_net = NoNet
    /\ pc = "none"
    /\ ConnGlobalsInit
    /\ PauseIdle
    /\ RotIdle
    /\ AuxIdle

RotNext ==
    \/ RecvPagesList \/ PagesListReset \/ RecvPagesSync \/ PagesSyncReset \/ LaunchDone
    \/ ControlNext \/ ControlPrev \/ ControlGoto \/ ControlPause \/ ControlResume
    \/ RecvSync
    \/ SwitcherSyncFire \/ SwitcherIdle \/ SwitcherSyncCheck \/ SwitcherStartPage
    \/ SwitcherWaitBroken \/ SwitcherAdvance
    \/ RotTick

SpecRot == RotInit /\ [][RotNext]_vars

(***************************************************************************)
(* main(), lines 1523-1554: the renderer is watched, an exited one is      *)
(* relaunched, three exits within five minutes enter safe mode.            *)
(***************************************************************************)
CrashWindow == 300
CrashLimit == 3
SafeModeSpan == 300
CrashBackoff == 10

\* lines 1528-1529: crash times older than the window are dropped from the front
RECURSIVE TrimOld(_, _)
TrimOld_KeepAll(ct, t) == ct

\* an if where the code has a while: at most one old crash time is dropped
TrimOld_OnlyFirst(ct, t) ==
    IF ct # <<>> /\ t - Head(ct) > CrashWindow THEN Tail(ct) ELSE ct

TrimOld(ct, t) ==
    IF ct # <<>> /\ t - Head(ct) > CrashWindow THEN TrimOld(Tail(ct), t) ELSE ct

mainRest == <<last_switch_check, scanVars, new_url, new_type, local_candidate, ev,
              confirmed, run_since>>
shownVars == <<pages, sync_enabled, reset_timer, hpc, syncVars, switcherVars>>

MaxExits == 5

\* the renderer process ends, g seconds from now
RendererExits(gaps) ==
    /\ launched # "none"
    /\ ~browser_exited
    /\ Len(exits) < MaxExits
    /\ browser_exited' = TRUE
    /\ \E g \in gaps : clock' = clock + g
    /\ UNCHANGED <<discVars, probeVars, safe_mode_until, crash_times, last_crash, launched,
                   exits, switcher_key, calc, shotVars, refreshVars, local_net, sioVars, connGlobals, mainVars,
                   histVars, pauseVars, rotVars>>

BrowserExit == RendererExits({0})

\* lines 1549-1554 and launch_browser_with_tabs up to its sleep: the relaunch of an
\* exited renderer, with the crash time t taken before
Relaunch(t) ==
    /\ last_crash' = t
    /\ launched' = IF t < safe_mode_until THEN "fallback" ELSE get_enabled_urls
    /\ browser_ready' = FALSE
    /\ browser_exited' = FALSE
    /\ pc' = "crash_launch"

\* lines 1524-1548: an exit is found and recorded; the third within the window enters
\* safe mode with the fallback asset, any other is relaunched, after 10 s when the
\* last crash is less than 10 s old
CrashCheck ==
    /\ pc = "monitor"
    /\ launched # "none" /\ browser_exited
    /\ now' = clock
    /\ IF Len(TrimOld(Append(crash_times, clock), clock)) >= CrashLimit
       THEN /\ safe_mode_until' = clock + SafeModeSpan
            /\ crash_times' = <<>>
            /\ exits' = Append(exits, <<clock, TRUE>>)
            /\ launched' = "fallback"
            /\ browser_ready' = FALSE
            /\ browser_exited' = FALSE
            /\ pc' = "crash_launch"
            /\ UNCHANGED last_crash
       ELSE /\ crash_times' = TrimOld(Append(crash_times, clock), clock)
            /\ exits' = Append(exits, <<clock, FALSE>>)
            /\ UNCHANGED safe_mode_until
            /\ IF clock - last_crash < CrashBackoff
               THEN /\ pc' = "crash_sleep"
                    /\ UNCHANGED <<last_crash, launched, browser_ready, browser_exited>>
               ELSE Relaunch(clock)
    /\ UNCHANGED <<discVars, probeVars, switcher_key, calc, shotVars, refreshVars, envVars, sioVars, connGlobals,
                   mainRest, pauseVars, current_index, shownVars>>

\* lines 1547-1554: the 10 s are over, the renderer is relaunched
CrashSleepDone ==
    /\ pc = "crash_sleep"
    /\ clock' = IF clock < now + CrashBackoff THEN now + CrashBackoff ELSE clock
    /\ Relaunch(now)
    /\ UNCHANGED <<discVars, probeVars, safe_mode_until, crash_times, exits, switcher_key,
                   calc, shotVars, refreshVars, local_net, sioVars, connGlobals, now, mainRest, pauseVars,
                   current_index, shownVars>>

\* launch_browser_with_tabs called by main(), lines 596-597
MainLaunchDone ==
    /\ pc = "crash_launch"
    /\ current_index' = 0
    /\ browser_ready' = TRUE
    /\ pc' = "monitor"
    /\ UNCHANGED <<discVars, probeVars, auxVars, envVars, sioVars, connGlobals, now,
                   mainRest, pauseVars, shownVars>>

\* how long a renderer lasts
CrashGaps == {5, 150, 151, 301}

BrowserExitLater == RendererExits(CrashGaps)

\* the supervision alone: the device has received its page (on_pages_sync at
\* StartTime) and launched the renderer with it; the renderer keeps exiting
CrashInit ==
    /\ DiscIdle
    /\ ProbeIdle
    /\ clock = StartTime
    /\ local_net = NoNet
    /\ pc = "monitor"
    /\ ConnGlobalsInit
    /\ PauseIdle
    /\ pages = <<PageB>>
    /\ current_index = 0
    /\ sync_enabled = TRUE
    /\ reset_timer = TRUE
    /\ browser_ready = TRUE
    /\ sync_at = NoTime
    /\ sync_target_page_id = NoPageId
    /\ sync_server_time = 1
    /\ sync_received_at = StartTime
    /\ hpc = "idle"
    /\ spc = "top"
    /\ wait_start = 0
    /\ wait_duration = 0
    /\ safe_mode_until = 0
    /\ crash_times = <<>>
    /\ last_crash = 0
    /\ browser_exited = FALSE
    /\ launched = "pages"
    /\ switcher_key = "none"
    /\ exits = <<>>
    /\ calc = [phase |-> "idle"]
    /\ ShotIdle
    /\ RefreshIdle

CrashNext == BrowserExitLater \/ CrashCheck \/ CrashSleepDone \/ MainLaunchDone

SpecCrash == CrashInit /\ [][CrashNext]_vars

(***************************************************************************)
(* Safe mode beside the rotation: page lists arrive, the rotation loop     *)
(* runs, the renderer exits and main() relaunches it.                      *)
(***************************************************************************)
SafeInit ==
    /\ DiscIdle
    /\ ProbeIdle
    /\ clock = StartTime
    /\ local_net = NoNet
    /\ pc = "monitor"
    /\ ConnGlobalsInit
    /\ PauseIdle
    /\ RotIdle
    /\ AuxIdle

SafeNext ==
    \/ RecvTwoPageList \/ PagesListReset \/ RecvTwoPageSync \/ PagesSyncReset \/ LaunchDone
    \/ SwitcherSafeSleep \/ SwitcherSyncFire \/ SwitcherIdle \/ SwitcherSyncCheck
    \/ SwitcherStartPage \/ SwitcherWaitBroken \/ SwitcherAdvance
    \/ BrowserExit \/ CrashCheck \/ CrashSleepDone \/ MainLaunchDone
    \/ RotTick

SpecSafe == SafeInit /\ [][SafeNext]_vars

(***************************************************************************)
(* After safe mode (SpecRecover): the device rotates its pages in          *)
(* time-locked mode, the renderer exits three times in a row, safe mode is *)
(* entered and its 300 s pass;                                             *)
(* after that the renderer keeps running and the server sends nothing.     *)
(* Every thread keeps being scheduled and time keeps passing.              *)
(***************************************************************************)
RecoverInit ==
    /\ DiscIdle
    /\ ProbeIdle
    /\ clock = StartTime
    /\ local_net = NoNet
    /\ pc = "monitor"
    /\ ConnGlobalsInit
    /\ PauseIdle
    /\ pages \in {<<PageA, PageB>>, <<PageA, PageB, PageC>>}
    /\ current_index = 0
    /\ sync_enabled = TRUE
    /\ reset_timer = TRUE
    /\ browser_ready = TRUE
    /\ sync_at = NoTime
    /\ sync_target_page_id = NoPageId
    /\ sync_server_time = 1
    /\ sync_received_at = StartTime
    /\ hpc = "idle"
    /\ spc = "top"
    /\ wait_start = 0
    /\ wait_duration = 0
    /\ safe_mode_until = 0
    /\ crash_times = <<>>
    /\ last_crash = 0
    /\ browser_exited = FALSE
    /\ launched = "pages"
    /\ switcher_key = "none"
    /\ exits = <<>>
    /\ calc = [phase |-> "idle"]
    /\ ShotIdle
    /\ RefreshIdle

\* the renderer exits, as long as safe mode was never entered
BrowserExitBeforeSafe == safe_mode_until = 0 /\ RendererExits({0})

\* the 300 s of safe mode pass
SafeModeElapses ==
    /\ safe_mode_until > 0
    /\ clock < safe_mode_until
    /\ clock' = safe_mode_until
    /\ UNCHANGED <<discVars, probeVars, auxVars, local_net, sioVars, connGlobals, mainVars,
                   histVars, pauseVars, rotVars>>

\* a second passes, after safe mode
RecoverTick ==
    /\ safe_mode_until > 0
    /\ clock >= safe_mode_until
    /\ clock < safe_mode_until + RotHorizon
    /\ clock' = clock + 1
    /\ UNCHANGED <<discVars, probeVars, auxVars, local_net, sioVars, connGlobals, mainVars,
                   histVars, pauseVars, rotVars>>

RecoverMain == CrashCheck \/ CrashSleepDone \/ MainLaunchDone

RecoverSwitcher ==
    SwitcherSafeSleep \/ SwitcherSyncFire \/ SwitcherIdle \/ SwitcherSyncCheck

RecoverTime == SafeModeElapses \/ RecoverTick

RecoverNext == BrowserExitBeforeSafe \/ RecoverMain \/ RecoverSwitcher \/ RecoverTime

SpecRecover ==
    /\ RecoverInit
    /\ [][RecoverNext]_vars
    /\ WF_vars(RecoverMain)
    /\ WF_vars(RecoverSwitcher)
    /\ WF_vars(RecoverTime)

(***************************************************************************)
(* on_sync and switcher_thread statement by statement (SpecRace): the      *)
(* handler runs on the client's event thread, the rotation loop on its own *)
(* thread, and no lock guards paused, pause_reason, sync_at and            *)
(* sync_target_page_id, so the threads interleave between any two          *)
(* statements.  The device shows three pages in timer rotation.            *)
(***************************************************************************)
\* how far ahead of the device's clock a well-formed sync_at lies
SyncDelays == {0, 1}

\* on_sync, lines 947-959: sync_at is written (the payload's time, or time.time() + 2.0
\* when it is no number); a message that switches sync off is done at line 951
OnSyncAt ==
    /\ hpc = "idle"
    /\ \E sync_off \in BOOLEAN, at_is_number \in BOOLEAN, d \in SyncDelays :
          IF sync_off
          THEN /\ sync_enabled' = FALSE
               /\ UNCHANGED <<sync_at, hpc>>
          ELSE /\ sync_at' = IF at_is_number THEN clock + d ELSE clock + 2
               /\ hpc' = "sync_target"
               /\ UNCHANGED sync_enabled
    /\ UNCHANGED <<discVars, probeVars, auxVars, connVars, pauseVars, pages, current_index,
                   reset_timer, browser_ready, sync_target_page_id, sync_server_time,
                   sync_received_at, switcherVars>>

\* on_sync, line 960
OnSyncTarget ==
    /\ hpc = "sync_target"
    /\ \E page_id \in PageIds \cup {NoPageId} : sync_target_page_id' = page_id
    /\ hpc' = "sync_paused"
    /\ UNCHANGED <<discVars, probeVars, auxVars, connVars, pauseVars, pages, current_index,
                   sync_enabled, reset_timer, browser_ready, sync_at, sync_server_time,
                   sync_received_at, switcherVars>>

\* on_sync, line 961
OnSyncPaused ==
    /\ hpc = "sync_paused"
    /\ paused' = TRUE
    /\ hpc' = "sync_reason"
    /\ UNCHANGED <<discVars, probeVars, auxVars, connVars, pause_reason, admin_mode_active,
                   last_paused_before_disconnect, pages, current_index, sync_enabled,
                   reset_timer, browser_ready, syncVars, switcherVars>>

\* on_sync, line 962
OnSyncReason ==
    /\ hpc = "sync_reason"
    /\ pause_reason' = "sync"
    /\ hpc' = "idle"
    /\ UNCHANGED <<discVars, probeVars, auxVars, connVars, paused, admin_mode_active,
                   last_paused_before_disconnect, pages, current_index, sync_enabled,
                   reset_timer, browser_ready, syncVars, switcherVars>>

\* switcher_thread, lines 686-691: the tests that decide whether a sync fires
FireCheck ==
    /\ spc = "top"
    /\ ~(clock < safe_mode_until)
    /\ spc' = IF paused /\ browser_ready /\ sync_at # NoTime /\ clock >= sync_at
              THEN "fire" ELSE "gate"
    /\ switcher_key' = "none"
    /\ UNCHANGED <<discVars, probeVars, safeVars, calc, shotVars, refreshVars, connVars, pauseVars, pages,
                   current_index, sync_enabled, reset_timer, browser_ready, hpc, syncVars,
                   wait_start, wait_duration>>

\* switcher_thread, lines 692-694: the jump to the target page, then paused = False
FireGoto ==
    /\ spc = "fire"
    /\ IF sync_target_page_id # NoPageId
       THEN /\ current_index' = goto_page_id(sync_target_page_id)[1]
            /\ reset_timer' = goto_page_id(sync_target_page_id)[2]
            /\ switcher_key' = goto_page_id(sync_target_page_id)[3]
       ELSE /\ UNCHANGED <<current_index, reset_timer>>
            /\ switcher_key' = "none"
    /\ paused' = FALSE
    /\ spc' = "fire_at"
    /\ UNCHANGED <<discVars, probeVars, safeVars, calc, shotVars, refreshVars, connVars, pause_reason,
                   admin_mode_active, last_paused_before_disconnect, pages, sync_enabled,
                   browser_ready, hpc, syncVars, wait_start, wait_duration>>

\* switcher_thread, line 696
FireClearAt ==
    /\ spc = "fire_at"
    /\ sync_at' = NoTime
    /\ spc' = "fire_target"
    /\ switcher_key' = "none"
    /\ UNCHANGED <<discVars, probeVars, safeVars, calc, shotVars, refreshVars, connVars, pauseVars, pages,
                   current_index, sync_enabled, reset_timer, browser_ready, hpc,
                   sync_target_page_id, sync_server_time, sync_received_at, wait_start,
                   wait_duration>>

\* switcher_thread, line 697
FireClearTarget ==
    /\ spc = "fire_target"
    /\ sync_target_page_id' = NoPageId
    /\ spc' = "gate"
    /\ switcher_key' = "none"
    /\ UNCHANGED <<discVars, probeVars, safeVars, calc, shotVars, refreshVars, connVars, pauseVars, pages,
                   current_index, sync_enabled, reset_timer, browser_ready, hpc, sync_at,
                   sync_server_time, sync_received_at, wait_start, wait_duration>>

\* switcher_thread, lines 731-740: the duration has elapsed and the test of line 740
\* is made; the keystroke is still to be sent
AdvanceCheck ==
    /\ spc = "wait"
    /\ ~paused /\ ~reset_timer
    /\ wait_duration # Text
    /\ clock - wait_start >= wait_duration
    /\ spc' = IF pages # <<>> THEN "advance" ELSE "top"
    /\ wait_start' = 0
    /\ wait_duration' = 0
    /\ switcher_key' = "none"
    /\ UNCHANGED <<discVars, probeVars, safeVars, calc, shotVars, refreshVars, connVars, pauseVars, pages,
                   current_index, sync_enabled, reset_timer, browser_ready, hpc, syncVars>>

\* switcher_thread, lines 741-742: ctrl+Tab is sent and the index moves on
AdvanceSend ==
    /\ spc = "advance"
    /\ current_index' = (current_index + 1) % Len(pages)
    /\ switcher_key' = "ctrl+Tab"
    /\ spc' = "top"
    /\ UNCHANGED <<discVars, probeVars, safeVars, calc, shotVars, refreshVars, connVars, pauseVars, pages,
                   sync_enabled, reset_timer, browser_ready, hpc, syncVars, wait_start,
                   wait_duration>>

RaceInit ==
    /\ DiscIdle
    /\ ProbeIdle
    /\ clock = StartTime
    /\ local_net = NoNet
    /\ pc = "none"
    /\ ConnGlobalsInit
    /\ PauseIdle
    /\ pages = <<PageA, PageB, PageC>>
    /\ current_index = 0
    /\ sync_enabled = FALSE
    /\ reset_timer = TRUE
    /\ browser_ready = TRUE
    /\ sync_at = NoTime
    /\ sync_target_page_id = NoPageId
    /\ sync_server_time = 1
    /\ sync_received_at = StartTime
    /\ hpc = "idle"
    /\ spc = "top"
    /\ wait_start = 0
    /\ wait_duration = 0
    /\ AuxIdle

OnSyncStep == OnSyncAt \/ OnSyncTarget \/ OnSyncPaused \/ OnSyncReason

RaceSwitcherStep ==
    \/ FireCheck \/ FireGoto \/ FireClearAt \/ FireClearTarget
    \/ SwitcherIdle \/ SwitcherStartPage \/ SwitcherWaitBroken
    \/ AdvanceCheck \/ AdvanceSend

RaceNext == OnSyncStep \/ RaceSwitcherStep \/ RotTick

SpecRace == RaceInit /\ [][RaceNext]_vars

(***************************************************************************)
(* Auto-refresh in timer rotation (SpecRefresh): the server has time-locked *)
(* rotation off, pages refresh on every second, every and every third      *)
(* arrival, the operator steps and pauses, and the list is replaced.       *)
(***************************************************************************)
RefreshHorizon == 8

EveryOther == RefreshPage(1, 1, 2)
EveryTime == RefreshPage(2, 1, 1)
EveryThird == RefreshPage(3, 1, 3)
PlainPage == Page(4, 1)
RefreshLists == { <<EveryOther, EveryTime, EveryThird>>, <<EveryThird, PlainPage>> }

RecvRefreshList == RecvPagesListFrom(RefreshLists)

RefreshTick ==
    /\ clock < StartTime + RefreshHorizon
    /\ clock' = clock + 1
    /\ UNCHANGED <<discVars, probeVars, auxVars, local_net, sioVars, connGlobals, mainVars,
                   histVars, pauseVars, rotVars>>

RefreshInit ==
    /\ DiscIdle
    /\ ProbeIdle
    /\ clock = StartTime
    /\ local_net = NoNet
    /\ pc = "none"
    /\ ConnGlobalsInit
    /\ PauseIdle
    /\ pages \in RefreshLists
    /\ current_index = 0
    /\ sync_enabled = FALSE
    /\ reset_timer = TRUE
    /\ browser_ready = TRUE
    /\ sync_at = NoTime
    /\ sync_target_page_id = NoPageId
    /\ sync_server_time = 1
    /\ sync_received_at = StartTime
    /\ hpc = "idle"
    /\ spc = "top"
    /\ wait_start = 0
    /\ wait_duration = 0
    /\ AuxIdle

RefreshNext ==
    \/ RecvRefreshList \/ PagesListReset \/ LaunchDone
    \/ ControlNext \/ ControlPause \/ ControlResume
    \/ SwitcherSyncFire \/ SwitcherIdle \/ SwitcherStartPage \/ SwitcherWaitBroken
    \/ SwitcherAdvance
    \/ RefreshTick

SpecRefresh == RefreshInit /\ [][RefreshNext]_vars

(***************************************************************************)
(* upload_screenshot, lines 236-264, called from several threads at once   *)
(* (SpecShot): every schedule_screenshot starts a timer thread of its own. *)
(* SCREENSHOT_ENABLED is taken as set, its default.                        *)
(***************************************************************************)
SCREENSHOT_INTERVAL_SEC == 3

\* line 242 and line 246: too soon after the last screenshot
TooSoon == clock - last_screenshot_time < SCREENSHOT_INTERVAL_SEC

\* the last two of the attempts, with t the newest
Noted(log, t) == IF log = <<>> THEN <<t>> ELSE <<log[Len(log)], t>>

shotRest == <<discVars, probeVars, safeVars, switcher_key, calc, refreshVars, envVars, sioVars,
              current_server_url, connection_type, last_disconnect_time,
              last_switch_time, local_stable_since, mainVars, histVars, pauseVars,
              rotVars>>

\* lines 241-243: the test outside the lock
ShotCall(c) ==
    /\ shot_pc[c] = "idle"
    /\ shot_pc' = [shot_pc EXCEPT ![c] = IF TooSoon THEN "idle" ELSE "acquire"]
    /\ UNCHANGED <<last_screenshot_time, shot_lock, attempts, last_local_failure_time,
                   shotRest>>

\* the caller enters the with block although another caller may be inside
ShotAcquire_NoLock(c) ==
    /\ shot_pc[c] = "acquire"
    /\ shot_lock' = c
    /\ shot_pc' = [shot_pc EXCEPT ![c] = "locked"]
    /\ UNCHANGED <<last_screenshot_time, attempts, last_local_failure_time, shotRest>>

\* line 244: with shot_lock, entered once the lock is free
ShotAcquire(c) ==
    /\ shot_pc[c] = "acquire"
    /\ shot_lock = NoCaller
    /\ shot_lock' = c
    /\ shot_pc' = [shot_pc EXCEPT ![c] = "locked"]
    /\ UNCHANGED <<last_screenshot_time, attempts, last_local_failure_time, shotRest>>

\* lines 245-248: the test again, inside the lock; the capture begins or the caller
\* returns, which releases the lock
ShotRecheck(c) ==
    /\ shot_pc[c] = "locked"
    /\ IF TooSoon
       THEN /\ shot_pc' = [shot_pc EXCEPT ![c] = "idle"]
            /\ shot_lock' = NoCaller
            /\ UNCHANGED attempts
       ELSE /\ shot_pc' = [shot_pc EXCEPT ![c] = "capture"]
            /\ attempts' = Noted(attempts, clock)
            /\ UNCHANGED shot_lock
    /\ UNCHANGED <<last_screenshot_time, last_local_failure_time, shotRest>>

\* line 248: capture_screenshot() returns True or False
ShotCapture(c) ==
    /\ shot_pc[c] = "capture"
    /\ \E captured \in BOOLEAN :
          IF captured
          THEN /\ shot_pc' = [shot_pc EXCEPT ![c] = "upload"]
               /\ UNCHANGED shot_lock
          ELSE /\ shot_pc' = [shot_pc EXCEPT ![c] = "idle"]
               /\ shot_lock' = NoCaller
    /\ UNCHANGED <<last_screenshot_time, attempts, last_local_failure_time, shotRest>>

\* lines 250-264: the upload returns and the time is noted, or it raises and a local
\* connection is marked as failing
ShotUpload(c) ==
    /\ shot_pc[c] = "upload"
    /\ \E posted \in BOOLEAN :
          IF posted
          THEN /\ last_screenshot_time' = clock
               /\ UNCHANGED last_local_failure_time
          ELSE /\ last_local_failure_time' =
                     IF connection_type = "local" THEN clock ELSE last_local_failure_time
               /\ UNCHANGED last_screenshot_time
    /\ shot_pc' = [shot_pc EXCEPT ![c] = "idle"]
    /\ shot_lock' = NoCaller
    /\ UNCHANGED <<attempts, shotRest>>

ShotInit ==
    /\ DiscIdle
    /\ ProbeIdle
    /\ clock = StartTime
    /\ local_net = NoNet
    /\ pc = "none"
    /\ sio_connected = TRUE
    /\ \E u \in {LocalServerUrl, OverlayServerUrl} :
          /\ sio_url = u
          /\ current_server_url = u
          /\ connection_type = IF u = LocalServerUrl THEN "local" ELSE "tailscale"
    /\ ConnRest
    /\ PauseIdle
    /\ RotIdle
    /\ AuxIdle

ShotNext ==
    \/ \E c \in Callers :
          \/ ShotCall(c) \/ ShotAcquire(c) \/ ShotRecheck(c) \/ ShotCapture(c)
          \/ ShotUpload(c)
    \/ RotTick

SpecShot == ShotInit /\ [][ShotNext]_vars

(***************************************************************************)
(* on_sync over the shapes a payload can have (SpecSync): one call of the  *)
(* handler, on a device that shows three pages.                            *)
(***************************************************************************)
\* a JSON value: a number, a string, null, or a key the payload does not have
Json(t, n, s) == [t |-> t, n |-> n, s |-> s]
Missing == Json("missing", 0, "")
Null == Json("null", 0, "")
Num(n) == Json("num", n, "")
Str(s) == Json("str", 0, s)

\* the strings float() accepts, with their values
FloatOfText == [s \in {"1001"} |-> 1001]

\* float(v), line 956: <<TRUE, the number>>, or <<FALSE, 0>> where it raises
\* (TypeError for None, ValueError for a string that is no number)
to_float(v) ==
    IF v.t = "num" THEN <<TRUE, v.n>>
    ELSE IF v.t = "str" /\ v.s \in DOMAIN FloatOfText THEN <<TRUE, FloatOfText[v.s]>>
    ELSE <<FALSE, 0>>

\* lines 955-958 with the except clause left out: no time where float() raises
SyncAtOrDefault_NoDefault(v, t) == IF to_float(v)[1] THEN to_float(v)[2] ELSE NoTime

\* lines 955-958: the payload's time, or t + 2.0 where float() raises
SyncAtOrDefault(v, t) == IF to_float(v)[1] THEN to_float(v)[2] ELSE t + 2

SyncAtValues == {Missing, Null, Num(StartTime - 1), Num(StartTime + 1), Str("1001"),
                 Str("abc"), Str("")}

\* sync_enabled is a key the payload may lack; page_id is NoPageId where it is lacking
SyncMessages ==
    [sync_enabled : {"missing", "true", "false"}, sync_at : SyncAtValues,
     page_id : PageIds \cup {NoPageId}]

\* not data (line 948): the payload has no key at all
IsEmpty(data) ==
    data.sync_enabled = "missing" /\ data.sync_at.t = "missing" /\ data.page_id = NoPageId

SyncInit ==
    /\ DiscIdle
    /\ ProbeIdle
    /\ clock = StartTime
    /\ local_net = NoNet
    /\ pc = "none"
    /\ ConnGlobalsInit
    /\ paused \in BOOLEAN
    /\ pause_reason = IF paused THEN "manual" ELSE None
    /\ admin_mode_active = FALSE
    /\ last_paused_before_disconnect = FALSE
    /\ pages = <<PageA, PageB, PageC>>
    /\ current_index = 0
    /\ sync_enabled = TRUE
    /\ reset_timer = FALSE
    /\ browser_ready = TRUE
    /\ sync_at = NoTime
    /\ sync_target_page_id = NoPageId
    /\ sync_server_time = 1
    /\ sync_received_at = StartTime
    /\ hpc = "idle"
    /\ spc = "top"
    /\ wait_start = 0
    /\ wait_duration = 0
    /\ safe_mode_until = 0
    /\ crash_times = <<>>
    /\ last_crash = 0
    /\ browser_exited = FALSE
    /\ launched = "pages"
    /\ switcher_key = "none"
    /\ exits = <<>>
    /\ ShotIdle
    /\ RefreshIdle
    /\ calc \in [phase : {"call"}, data : SyncMessages]

\* on_sync(data), lines 944-963
OnSyncCall ==
    /\ calc.phase = "call"
    /\ calc' = [calc EXCEPT !.phase = "done"]
    /\ IF IsEmpty(calc.data)
       THEN UNCHANGED <<sync_enabled, sync_at, sync_target_page_id, paused, pause_reason>>
       ELSE IF calc.data.sync_enabled = "false"
       THEN /\ sync_enabled' = FALSE
            /\ UNCHANGED <<sync_at, sync_target_page_id, paused, pause_reason>>
       ELSE /\ sync_at' = SyncAtOrDefault(calc.data.sync_at, clock)
            /\ sync_target_page_id' = calc.data.page_id
            /\ paused' = TRUE
            /\ pause_reason' = "sync"
            /\ UNCHANGED sync_enabled
    /\ UNCHANGED <<discVars, probeVars, safeVars, switcher_key, shotVars, refreshVars, connVars,
                   admin_mode_active, last_paused_before_disconnect, pages,
                   current_index, reset_timer, browser_ready, hpc, sync_server_time,
                   sync_received_at, switcherVars>>

SpecSync == SyncInit /\ [][OnSyncCall]_vars

(***************************************************************************)
(* pages_sync payloads of any shape (SpecPayload): the device shows two    *)
(* pages; payloads arrive whose server_time or whose first duration is a   *)
(* string, or whose pages are null.                                        *)
(***************************************************************************)
MalformedPayloads ==
    [pages : {<<PageA, PageB>>, <<Page(1, Text), PageB>>}, sync_enabled : BOOLEAN,
     server_time : {NoTime, 1, Text}]

RecvMalformedSync == RecvPagesSyncFrom(MalformedPayloads)

\* on_pages_sync with "pages": null, lines 922-926: pages is None (empty for every
\* test the program makes of it), and len(pages) raises before the index is reset
\* and the renderer relaunched
RecvNullPagesSync ==
    /\ hpc = "idle"
    /\ pages' = <<>>
    /\ \E enabled \in BOOLEAN : sync_enabled' = enabled
    /\ sync_server_time' = 1
    /\ sync_received_at' = clock
    /\ UNCHANGED <<discVars, probeVars, auxVars, connVars, pauseVars, current_index,
                   reset_timer, browser_ready, hpc, sync_at, sync_target_page_id,
                   switcherVars>>

PayloadInit ==
    /\ DiscIdle
    /\ ProbeIdle
    /\ clock = StartTime
    /\ local_net = NoNet
    /\ pc = "none"
    /\ ConnGlobalsInit
    /\ PauseIdle
    /\ pages = <<PageA, PageB>>
    /\ current_index = 0
    /\ sync_enabled = TRUE
    /\ reset_timer = TRUE
    /\ browser_ready = TRUE
    /\ sync_at = NoTime
    /\ sync_target_page_id = NoPageId
    /\ sync_server_time = 1
    /\ sync_received_at = StartTime
    /\ hpc = "idle"
    /\ spc = "top"
    /\ wait_start = 0
    /\ wait_duration = 0
    /\ safe_mode_until = 0
    /\ crash_times = <<>>
    /\ last_crash = 0
    /\ browser_exited = FALSE
    /\ launched = "pages"
    /\ switcher_key = "none"
    /\ exits = <<>>
    /\ calc = [phase |-> "idle"]
    /\ ShotIdle
    /\ RefreshIdle

PayloadNext ==
    \/ RecvMalformedSync \/ RecvNullPagesSync \/ PagesSyncReset \/ LaunchDone
    \/ SwitcherSyncFire \/ SwitcherIdle \/ SwitcherSyncCheck \/ SwitcherStartPage
    \/ SwitcherWaitBroken \/ SwitcherAdvance \/ SwitcherSyncRaises \/ SwitcherWaitRaises
    \/ RotTick

SpecPayload == PayloadInit /\ [][PayloadNext]_vars

(***************************************************************************)
(* The server's clock on the device (SpecOffset): pages_sync messages with *)
(* different server times arrive, seconds apart, and the rotation loop     *)
(* follows the corrected time.                                             *)
(***************************************************************************)
ServerTimes == {1, 7, 50}

OffsetPayloads == [pages : {<<PageA, PageB>>}, sync_enabled : {TRUE}, server_time : ServerTimes]

RecvOffsetSync == RecvPagesSyncFrom(OffsetPayloads)

OffsetInit ==
    /\ DiscIdle
    /\ ProbeIdle
    /\ clock = StartTime
    /\ local_net = NoNet
    /\ pc = "none"
    /\ ConnGlobalsInit
    /\ PauseIdle
    /\ RotIdle
    /\ safe_mode_until = 0
    /\ crash_times = <<>>
    /\ last_crash = 0
    /\ browser_exited = FALSE
    /\ launched = "none"
    /\ switcher_key = "none"
    /\ exits = <<>>
    /\ ShotIdle
    /\ RefreshIdle
    /\ calc = [phase |-> "wire", server_time |-> NoTime, at |-> NoTime]

OffsetNext ==
    \/ RecvOffsetSync \/ PagesSyncReset \/ LaunchDone
    \/ SwitcherSyncFire \/ SwitcherIdle \/ SwitcherSyncCheck
    \/ RotTick

SpecOffset == OffsetInit /\ [][OffsetNext]_vars

(***************************************************************************)
(* The pause state over commands, sync and reconnects: the device is       *)
(* connected to its server and has handled the connect event; commands and *)
(* page lists arrive, the transport drops and comes back.                  *)
(***************************************************************************)
PauseInit ==
    /\ DiscIdle
    /\ ProbeIdle
    /\ clock = StartTime
    /\ local_net = NoNet
    /\ pc = "none"
    /\ sio_connected = TRUE
    /\ sio_url = OverlayServerUrl
    /\ current_server_url = OverlayServerUrl
    /\ connection_type = "tailscale"
    /\ ConnRest
    /\ PauseIdle
    /\ RotIdle
    /\ AuxIdle

PauseNext ==
    \/ ControlPause \/ ControlResume \/ ControlLoginMode \/ ControlExitLoginMode
    \/ ControlAdminMode \/ ControlExitAdminMode
    \/ RecvPlainSync \/ RecvOnePageSync \/ PagesSyncReset \/ LaunchDone
    \/ SwitcherSyncFire \/ SwitcherIdle \/ SwitcherSyncCheck
    \/ SioDrop \/ SioAutoReconnect \/ HandleDisconnect \/ HandleConnect
    \/ RotTick

SpecPause == PauseInit /\ [][PauseNext]_vars

(***************************************************************************)
(* One call of compute_sync_target over the page list the device holds.    *)
(* Durations come from the server as stored (no range check there), so a   *)
(* list may hold zero and negative ones.                                   *)
(***************************************************************************)
TargetDurations == {0 - 4, 0, 2, 5, 10, 20, 30}
MaxNow == 65

\* pages numbered 1, 2, ... with the durations ds
RECURSIVE PagesOf(_)
PagesOf(ds) ==
    IF ds = <<>> THEN <<>>
    ELSE Append(PagesOf(SubSeq(ds, 1, Len(ds) - 1)), Page(Len(ds), ds[Len(ds)]))

TargetLists ==
    { PagesOf(ds) : ds \in {<<>>} \cup [1..1 -> TargetDurations]
                              \cup [1..2 -> TargetDurations]
                              \cup [1..3 -> TargetDurations] }

TargetInit ==
    /\ DiscIdle
    /\ ProbeIdle
    /\ ConnIdle
    /\ PauseIdle
    /\ RotRest
    /\ pages \in TargetLists
    /\ current_index = 0
    /\ reset_timer = FALSE
    /\ safe_mode_until = 0
    /\ crash_times = <<>>
    /\ last_crash = 0
    /\ browser_exited = FALSE
    /\ launched = "none"
    /\ switcher_key = "none"
    /\ exits = <<>>
    /\ ShotIdle
    /\ RefreshIdle
    /\ calc \in [phase : {"call"}, now_ts : 0..MaxNow, result : {<<NoIndex, 0>>}]

\* idx, remaining = compute_sync_target(now)
SyncTargetCall ==
    /\ calc.phase = "call"
    /\ calc' = [calc EXCEPT !.phase = "done",
                            !.result = compute_sync_target(pages, calc.now_ts)]
    /\ UNCHANGED <<discVars, probeVars, safeVars, switcher_key, shotVars, refreshVars, connVars, pauseVars,
                   rotVars>>

SpecTarget == TargetInit /\ [][SyncTargetCall]_vars

(***************************************************************************)
(* Two calls in a row of goto_page_id or goto_page_index with one target.  *)
(* Between them the rotation loop may take the reset flag (lines 727-729). *)
(***************************************************************************)
GotoMaxPages == 11

\* lists of 1, 3 and GotoMaxPages pages, and one where two pages share an id
GotoLists ==
    { PagesOf([i \in 1..n |-> 1]) : n \in {1, 3, GotoMaxPages} }
        \cup { <<Page(1, 1), Page(2, 1), Page(2, 1)>> }

ValidTarget(fn, target) ==
    IF fn = "goto_page_id" THEN \E i \in 1..Len(pages) : pages[i].id = target
    ELSE target \in 0..(Len(pages) - 1)

GotoInit ==
    /\ DiscIdle
    /\ ProbeIdle
    /\ ConnIdle
    /\ PauseIdle
    /\ RotRest
    /\ pages \in GotoLists
    /\ current_index \in 0..Len(pages)
    /\ reset_timer \in BOOLEAN
    /\ safe_mode_until = 0
    /\ crash_times = <<>>
    /\ last_crash = 0
    /\ browser_exited = FALSE
    /\ launched = "none"
    /\ switcher_key = "none"
    /\ exits = <<>>
    /\ ShotIdle
    /\ RefreshIdle
    /\ calc \in { c \in [phase : {"call"}, fn : {"goto_page_id", "goto_page_index"},
                          target : 0..GotoMaxPages, index1 : {NoIndex},
                          key1 : {"none"}, key2 : {"none"}, reset2 : {FALSE}] :
                     ValidTarget(c.fn, c.target) }

\* what the call of calc.fn with calc.target gives in the present state
GotoResult ==
    IF calc.fn = "goto_page_id" THEN goto_page_id(calc.target)
    ELSE goto_page_index(calc.target)

GotoFirstCall ==
    /\ calc.phase = "call"
    /\ current_index' = GotoResult[1]
    /\ reset_timer' = GotoResult[2]
    /\ calc' = [calc EXCEPT !.phase = "once", !.index1 = GotoResult[1],
                            !.key1 = GotoResult[3]]
    /\ UNCHANGED <<discVars, probeVars, safeVars, switcher_key, shotVars, refreshVars, connVars, pauseVars,
                   pages, sync_enabled, browser_ready, hpc, syncVars, switcherVars>>

\* switcher_thread, lines 727-729: the wait loop takes the reset flag
GotoTimerTaken ==
    /\ calc.phase = "once"
    /\ reset_timer
    /\ reset_timer' = FALSE
    /\ UNCHANGED <<discVars, probeVars, auxVars, connVars, pauseVars, pages,
                   current_index, sync_enabled, browser_ready, hpc, syncVars,
                   switcherVars>>

GotoSecondCall ==
    /\ calc.phase = "once"
    /\ current_index' = GotoResult[1]
    /\ reset_timer' = GotoResult[2]
    /\ calc' = [calc EXCEPT !.phase = "twice", !.key2 = GotoResult[3],
                            !.reset2 = reset_timer]
    /\ UNCHANGED <<discVars, probeVars, safeVars, switcher_key, shotVars, refreshVars, connVars, pauseVars,
                   pages, sync_enabled, browser_ready, hpc, syncVars, switcherVars>>

GotoNext == GotoFirstCall \/ GotoTimerTaken \/ GotoSecondCall

SpecGoto == GotoInit /\ [][GotoNext]_vars

(***************************************************************************)
(* The walk of goto_page_id / goto_page_index to a tab past the ninth      *)
(* (SpecWalk), statement by statement: the rotation loop is inside the     *)
(* call (lines 691 and 709) while the event thread handles pages_sync and  *)
(* the operator's next.                                                    *)
(***************************************************************************)
\* ctrl+Tab steps of one walk that are followed
MaxWalkSteps == 13

LongList == PagesOf([i \in 1..GotoMaxPages |-> 1])
ShortList == PagesOf([i \in 1..3 |-> 1])

WalkPayloads == [pages : {ShortList, LongList}, sync_enabled : {TRUE}, server_time : {1}]
RecvWalkSync == RecvPagesSyncFrom(WalkPayloads)

\* line 785: the index of the first page of that id, NoIndex when there is none
IndexOfPageId(ps, page_id) ==
    LET hit == { i \in 1..Len(ps) : ps[i].id = page_id }
    IN IF hit = {} THEN NoIndex ELSE (CHOOSE i \in hit : \A j \in hit : i <= j) - 1

walkRest == <<discVars, probeVars, safeVars, shotVars, refreshVars, connVars, pauseVars, pages,
              sync_enabled, browser_ready, hpc, syncVars, switcherVars>>

\* lines 779-799 and 813-826: the tests before the walk and the direct keystroke
WalkCall ==
    /\ calc.phase = "call"
    /\ LET idx == IF calc.fn = "goto_page_id" THEN IndexOfPageId(pages, calc.target)
                  ELSE calc.target
       IN IF pages = <<>> \/ idx = NoIndex \/ idx = current_index
          THEN /\ calc' = [calc EXCEPT !.phase = "done", !.idx = idx]
               /\ switcher_key' = "none"
               /\ UNCHANGED <<current_index, reset_timer>>
          ELSE IF idx + 1 >= 1 /\ idx + 1 <= DirectTabs
          THEN /\ calc' = [calc EXCEPT !.phase = "done", !.idx = idx]
               /\ switcher_key' = "ctrl+N"
               /\ current_index' = idx
               /\ reset_timer' = TRUE
          ELSE /\ calc' = [calc EXCEPT !.phase = "walk", !.idx = idx,
                                       !.len0 = Len(pages)]
               /\ switcher_key' = "none"
               /\ UNCHANGED <<current_index, reset_timer>>
    /\ UNCHANGED walkRest

\* lines 801-804 and 827-830: while current_index != idx, one ctrl+Tab and
\* current_index = (current_index + 1) % len(pages)
WalkStep ==
    /\ calc.phase = "walk"
    /\ current_index # calc.idx
    /\ pages # <<>>
    /\ calc.steps < MaxWalkSteps
    /\ current_index' = (current_index + 1) % Len(pages)
    /\ switcher_key' = "ctrl+Tab"
    /\ calc' = [calc EXCEPT !.steps = @ + 1]
    /\ UNCHANGED <<reset_timer, walkRest>>

\* lines 805 and 831: the index stands on idx, the walk is over
WalkReturn ==
    /\ calc.phase = "walk"
    /\ current_index = calc.idx
    /\ reset_timer' = TRUE
    /\ switcher_key' = "none"
    /\ calc' = [calc EXCEPT !.phase = "done"]
    /\ UNCHANGED <<current_index, walkRest>>

WalkInit ==
    /\ DiscIdle
    /\ ProbeIdle
    /\ ConnIdle
    /\ PauseIdle
    /\ pages = LongList
    /\ current_index \in 0..(Len(pages) - 1)
    /\ sync_enabled = TRUE
    /\ reset_timer = FALSE
    /\ browser_ready = TRUE
    /\ sync_at = NoTime
    /\ sync_target_page_id = NoPageId
    /\ sync_server_time = 1
    /\ sync_received_at = 0
    /\ hpc = "idle"
    /\ spc = "goto"
    /\ wait_start = 0
    /\ wait_duration = 0
    /\ safe_mode_until = 0
    /\ crash_times = <<>>
    /\ last_crash = 0
    /\ browser_exited = FALSE
    /\ launched = "pages"
    /\ switcher_key = "none"
    /\ exits = <<>>
    /\ ShotIdle
    /\ RefreshIdle
    /\ calc \in { c \in [phase : {"call"}, fn : {"goto_page_id", "goto_page_index"},
                          target : 0..GotoMaxPages, idx : {NoIndex}, steps : {0},
                          len0 : {0}] :
                     ValidTarget(c.fn, c.target) }

WalkNext ==
    \/ WalkCall \/ WalkStep \/ WalkReturn
    \/ RecvWalkSync \/ PagesSyncReset \/ LaunchDone \/ ControlNext

SpecWalk == WalkInit /\ [][WalkNext]_vars

(***************************************************************************)
(* One discovery call, one probe call.                                     *)
(***************************************************************************)
DiscInit ==
    /\ DiscInputs
    /\ ProbeIdle
    /\ ConnIdle
    /\ PauseIdle
    /\ RotIdle
    /\ AuxIdle

SpecDisc == DiscInit /\ [][DiscoverCall]_vars

ProbeNext == ProbeCallHealth \/ ProbeCallKiosk
ProbeInit ==
    /\ ProbeInputs
    /\ DiscIdle
    /\ ConnIdle
    /\ PauseIdle
    /\ RotIdle
    /\ AuxIdle

SpecProbe == ProbeInit /\ [][ProbeNext]_vars

C8_ProbeNeverRaises ==
    probe.phase = "done" =>
        /\ probe.result.kind = "return"
        /\ probe.fn = "test_connection_health" =>
             (probe.result.value[1] <=> (probe.behaviour = "status200"))
        /\ probe.fn = "test_server_connection" =>
             (probe.result.value <=> (probe.behaviour = "status200"))

\* the probe raised to its caller
C8_ProbeRaised ==
    /\ probe.phase = "done"
    /\ probe.fn = "test_connection_health"
    /\ probe.result.kind = "raise"

(***************************************************************************)
(* Properties of the connection manager (SpecConn).                        *)
(***************************************************************************)
\* a controlled switch has been decided and is being carried out
Switching == pc \in {"switch_disconnect", "switch_connect"}

C2_SwitchNotBeforeWindow ==
    pc = "switch_disconnect" =>
        /\ run_since # 0
        /\ now - run_since >= switch_stable_window

\* the early switch: decided at a check less than a window after the candidate was last
\* found unreachable
C2_EarlySwitch ==
    /\ pc = "switch_disconnect"
    /\ now - run_since < switch_stable_window

\* the supervisory loop is running with every raised event handled
LoopSettled == pc \in {"main_loop", "opt_check", "loop_sleep"} /\ evq = <<>>

\* C3: while the device stays disconnected the rescan keeps being triggered: there is
\* no state of the supervisory loop in which the client is disconnected, every event
\* has been handled and last_disconnect_time = 0 (the rescan guard can never hold).
C3_RescanStaysArmed ==
    (LoopSettled /\ ~sio_connected) => last_disconnect_time > 0

\* the dead state: disconnected, nothing pending, timer cleared
C3_DeadDisconnected ==
    /\ LoopSettled
    /\ ~sio_connected
    /\ last_disconnect_time = 0

\* the last step probed or selected a candidate of type local
TouchedLocal == ev.kind \in {"probe", "select"} /\ ev.type = "local"

\* C4: for local_failure_cooldown after a local-path failure was recorded in
\* last_local_failure_time no scan of the manager probes or selects a local candidate.
C4_NoLocalDuringCooldown ==
    (TouchedLocal /\ last_local_failure_time > 0) =>
        clock - last_local_failure_time >= local_failure_cooldown

\* a local candidate probed by the rescan inside the cooldown
C4_LocalProbedInCooldown ==
    /\ TouchedLocal
    /\ ev.by = "rescan_ret"
    /\ last_local_failure_time > 0
    /\ clock - last_local_failure_time < local_failure_cooldown

\* the address of the URL lies outside the device's subnet
OutsideSubnet(url) ==
    /\ local_net # NoNet
    /\ IsIPv4(get_url_host(url))
    /\ ~InNetwork(get_url_host(url), local_net)

\* C5: the manager never connects to a local candidate outside the device's subnet:
\* current_server_url is never set to one.
C5_NoLocalOutsideSubnet ==
    ~( /\ current_server_url # NoUrl
       /\ connection_type = "local"
       /\ OutsideSubnet(current_server_url) )

\* the connect-retry scan selected a local candidate outside the subnet
C5_OutsideSelected ==
    /\ ev.kind = "select" /\ ev.by = "retry_ret" /\ ev.type = "local"
    /\ OutsideSubnet(current_server_url)

\* C9: current_server_url is None or a URL a health probe found reachable before it
\* was assigned.
C9_ActiveUrlConfirmed ==
    current_server_url = NoUrl \/ current_server_url \in confirmed

\* the optimisation check assigned the URL its probe confirmed
C9_AssignedBySwitch ==
    /\ ev.kind = "select" /\ ev.by = "switch"
    /\ current_server_url = LocalServerUrl
    /\ LocalServerUrl \in confirmed

(***************************************************************************)
(* Properties of a scanning pass (SpecScan).                               *)
(***************************************************************************)
\* find_best_server_url has returned to its caller
ScanReturned == scan_ret # "none" /\ pc = scan_ret

\* the present round probed the listed candidates in order and found the first n
\* unreachable
FirstFailed(n) ==
    /\ Len(round_log) >= n
    /\ \A j \in 1..n : round_log[j].url = cands[j].url /\ ~round_log[j].ok

\* C6: a scanning pass returns the first reachable candidate in ascending priority
\* order: the list is in ascending priority, the returned candidate was probed
\* reachable and every candidate listed before it was probed unreachable in the same
\* round; if none is returned, every candidate was probed unreachable in each round.
C6_FirstReachableInPriorityOrder ==
    /\ scan_ret # "none" =>
         \A i, j \in 1..Len(cands) : i < j => cands[i].priority <= cands[j].priority
    /\ (ScanReturned /\ new_url # NoUrl) =>
         LET k == Len(round_log)
         IN /\ k \in 1..Len(cands)
            /\ round_log[k] = [url |-> new_url, ok |-> TRUE]
            /\ cands[k].url = new_url /\ cands[k].type = new_type
            /\ FirstFailed(k - 1)
    /\ (ScanReturned /\ new_url = NoUrl) =>
         Len(round_log) = Len(cands) /\ FirstFailed(Len(cands))
    /\ (scan_ret # "none" /\ pc = "scan_while" /\ round_log # <<>>) =>
         Len(round_log) = Len(cands) /\ FirstFailed(Len(cands))

\* the pass returned the second candidate of a list the sort had to reorder
C6_SecondReturnedAfterSort ==
    /\ ScanReturned
    /\ disc = NamedHostConfig
    /\ Len(cands) = 2 /\ cands[1].type = "local" /\ cands[2].type = "tailscale"
    /\ new_url = cands[2].url
    /\ Len(round_log) = 2

(***************************************************************************)
(* Properties of the rotation state (SpecRot).                             *)
(***************************************************************************)
\* C10: in every state any thread can observe, a non-empty page list has
\* 0 <= current_index < len(pages), the interval between the assignment of a new list
\* and the reset of current_index included.
C10_IndexInRange ==
    pages # <<>> => (0 <= current_index /\ current_index < Len(pages))

\* a shorter list has replaced pages, no handler is running, the index points past it
C10_IndexPastEnd ==
    /\ hpc = "idle"
    /\ pages # <<>>
    /\ current_index >= Len(pages)

\* C11: every time a page list arrives and replaces pages (pages_sync or the legacy
\* pages_list, sync enabled or not), current_index is 0 when the handler has finished.
C11_ReplacedListResetsIndex ==
    [][((RecvPagesList \/ LaunchDone) /\ hpc' = "idle") => current_index' = 0]_vars

(***************************************************************************)
(* compute_sync_target (SpecTarget).                                       *)
(***************************************************************************)
Total == SumDurations(pages, Len(pages))
Offset == calc.now_ts % Total
\* page i (counted from 1) owns the offsets from the sum before it up to its own sum
Owns(i, offset) == SumDurations(pages, i - 1) <= offset /\ offset < SumDurations(pages, i)

\* C12 as stated: with a positive total the result is (i, r), i the unique index whose
\* interval of cumulative durations holds offset = now mod total, r the rest of that
\* interval with 0 < r <= durations[i]; an empty list or a non-positive total gives
\* (None, 1.0).
C12_UniqueOwnerOfOffset ==
    calc.phase = "done" =>
        IF pages = <<>> \/ Total <= 0 THEN calc.result = <<NoIndex, 1>>
        ELSE /\ calc.result[1] \in 0..(Len(pages) - 1)
             /\ Owns(calc.result[1] + 1, Offset)
             /\ \A j \in 1..Len(pages) : Owns(j, Offset) => j = calc.result[1] + 1
             /\ calc.result[2] = SumDurations(pages, calc.result[1] + 1) - Offset
             /\ 0 < calc.result[2]
             /\ calc.result[2] <= pages[calc.result[1] + 1].duration

\* C12, amended: i is the first index whose cumulative sum exceeds the offset (so its
\* interval holds the offset), and it is the only such index when no duration is
\* negative; the rest as stated.
C12_FirstOwnerOfOffset ==
    calc.phase = "done" =>
        IF pages = <<>> \/ Total <= 0 THEN calc.result = <<NoIndex, 1>>
        ELSE /\ calc.result[1] \in 0..(Len(pages) - 1)
             /\ Owns(calc.result[1] + 1, Offset)
             /\ \A j \in 1..calc.result[1] : ~(Offset < SumDurations(pages, j))
             /\ (\A j \in 1..Len(pages) : pages[j].duration >= 0) =>
                    \A j \in 1..Len(pages) : Owns(j, Offset) => j = calc.result[1] + 1
             /\ calc.result[2] = SumDurations(pages, calc.result[1] + 1) - Offset
             /\ 0 < calc.result[2]
             /\ calc.result[2] <= pages[calc.result[1] + 1].duration

\* durations [10, 20, 30] at time 65: offset 5, page 0 with 5 s left
C12_WrappedOffset ==
    /\ calc.phase = "done"
    /\ pages = PagesOf(<<10, 20, 30>>)
    /\ calc.now_ts = 65
    /\ calc.result = <<0, 5>>

(***************************************************************************)
(* Time-locked rotation (SpecRot).                                         *)
(***************************************************************************)

\* C13: in time-locked rotation (sync enabled, server time known, not paused, browser
\* ready, not in safe mode) a check of the rotation loop leaves current_index at the
\* index compute_sync_target gives for the corrected time, whatever it was before.
C13_CheckAlignsIndex ==
    [][(SwitcherSyncCheck /\ compute_sync_target(pages, CorrectedTime)[1] # NoIndex)
         => current_index' = compute_sync_target(pages, CorrectedTime)[1]]_vars

\* a check has just jumped, the index is the one of the corrected time
C13_JumpedToTarget ==
    /\ spc = "top"
    /\ switcher_key = "ctrl+N"
    /\ SyncMode /\ ~paused /\ browser_ready /\ pages # <<>>
    /\ ~(clock < safe_mode_until)
    /\ current_index = compute_sync_target(pages, CorrectedTime)[1]
    /\ current_index = 2

\* index of the first page of that id, NoIndex when the list has none
IndexOfId(page_id) ==
    IF \E i \in 1..Len(pages) : pages[i].id = page_id
    THEN (CHOOSE i \in 1..Len(pages) :
            pages[i].id = page_id /\ \A j \in 1..(i - 1) : pages[j].id # page_id) - 1
    ELSE NoIndex

\* C14: a sync command is consumed at the first iteration of the rotation loop that
\* finds its time come (browser ready, not in safe mode): the loop jumps to the
\* commanded page if one was given, sets paused to false and clears sync_at and
\* sync_target_page_id.
C14_SyncFiresAtDeadline ==
    [][(SwitcherSyncFire /\ sync_at # NoTime /\ clock >= sync_at /\ browser_ready)
         => /\ paused' = FALSE
            /\ sync_at' = NoTime
            /\ sync_target_page_id' = NoPageId
            /\ (sync_target_page_id # NoPageId /\ IndexOfId(sync_target_page_id) # NoIndex)
                  => current_index' = IndexOfId(sync_target_page_id)]_vars

\* the loop went past a sync whose time had come and left it pending
C14_DeadlineMissed ==
    /\ spc = "gate"
    /\ sync_at # NoTime /\ clock >= sync_at
    /\ browser_ready /\ ~paused
    /\ sync_target_page_id # NoPageId
    /\ IndexOfId(sync_target_page_id) # NoIndex
    /\ IndexOfId(sync_target_page_id) # current_index

(***************************************************************************)
(* The pause state (SpecPause).                                            *)
(***************************************************************************)
\* C15: a pause for reason manual, admin or login in force when the channel
\* disconnects is in force after it reconnects: the disconnect handler and then the
\* connect handler leave the device paused, in admin mode if it was, with the same
\* reason.
C15_StickyPauseSurvivesReconnect ==
    [][/\ (HandleDisconnect /\ paused /\ pause_reason \in StickyReasons)
            => /\ paused' /\ pause_reason' = pause_reason
               /\ admin_mode_active' = admin_mode_active
       /\ (HandleConnect /\ paused /\ pause_reason \in StickyReasons
                         /\ last_paused_before_disconnect)
            => /\ paused' /\ pause_reason' = pause_reason
               /\ admin_mode_active' = admin_mode_active]_vars

\* C16: once paused by a pause or login_mode command the device is un-paused only by
\* a resume, exit_login_mode or exit_admin_mode command; no sync command, arriving,
\* firing or left over, un-pauses it.
C16_OnlyCommandsUnpause ==
    [][(paused /\ pause_reason \in {"manual", "login"} /\ ~paused')
         => (ControlResume \/ ControlExitLoginMode \/ ControlExitAdminMode)]_vars

\* the rotation loop fired a sync over a pause or login_mode command: the device
\* rotates again while the reason of the command still stands
C16_ManualPauseLostToSync == ~paused /\ pause_reason \in {"manual", "login"}

(***************************************************************************)
(* Jump-to-page (SpecGoto).                                                *)
(***************************************************************************)
\* the index the target of the call stands for
TargetIndex ==
    IF calc.fn = "goto_page_id" THEN IndexOfId(calc.target) ELSE calc.target

\* C17: jump-to-page called twice in a row with one valid target leaves current_index
\* where one call left it, at the target's index, and the second call sends no
\* keystroke and does not set reset_timer.
C17_GotoIdempotent ==
    (calc.phase = "once" => (current_index = TargetIndex /\ calc.index1 = TargetIndex))
    /\ (calc.phase = "twice" =>
            /\ current_index = calc.index1
            /\ current_index = TargetIndex
            /\ calc.key2 = "none"
            /\ reset_timer = calc.reset2)

\* the first call stepped tab by tab to a tab beyond the ninth and set the flag, the
\* loop took the flag, the second call left everything alone
C17_SecondCallSilent ==
    /\ calc.phase = "twice"
    /\ calc.key1 = "ctrl+Tab"
    /\ current_index = 10
    /\ ~reset_timer

(***************************************************************************)
(* Renderer supervision (SpecCrash).                                       *)
(***************************************************************************)
\* the exits recorded since crash_times was last cleared, i.e. after the last exit
\* at which safe mode was entered
RECURSIVE SinceCleared(_)
SinceCleared(log) ==
    IF log = <<>> \/ log[Len(log)][2] THEN <<>>
    ELSE Append(SinceCleared(SubSeq(log, 1, Len(log) - 1)), log[Len(log)][1])

\* how many of the times ts lie within the window that ends at t
CountWithin(ts, t) == Cardinality({ i \in 1..Len(ts) : t - ts[i] <= CrashWindow })

\* C18: safe mode is entered at an exit exactly when it is the third exit recorded
\* within the trailing 300 s since the window was last cleared; entering clears the
\* window; an exit more than 300 s after the one before never sets safe_mode_until.
C18_ThirdExitInWindowEntersSafeMode ==
    [][CrashCheck =>
         /\ (safe_mode_until' # safe_mode_until)
               <=> (CountWithin(SinceCleared(exits), clock) + 1 >= CrashLimit)
         /\ (safe_mode_until' # safe_mode_until)
               <=> (CountWithin(SinceCleared(exits), clock) + 1 = CrashLimit)
         /\ (safe_mode_until' # safe_mode_until)
               => (safe_mode_until' = clock + SafeModeSpan /\ crash_times' = <<>>)
         /\ (exits # <<>> /\ clock - exits[Len(exits)][1] > CrashWindow)
               => safe_mode_until' = safe_mode_until]_vars

\* safe mode was entered at an exit 300 s after the first of its three
C18_EnteredAtWindowEdge ==
    /\ Len(exits) = 3
    /\ exits[3][2]
    /\ exits[3][1] - exits[1][1] = CrashWindow
    /\ safe_mode_until = exits[3][1] + SafeModeSpan
    /\ crash_times = <<>>

(***************************************************************************)
(* Safe mode (SpecSafe).                                                   *)
(***************************************************************************)
SwitcherStep ==
    \/ SwitcherSafeSleep \/ SwitcherSyncFire \/ SwitcherIdle \/ SwitcherSyncCheck
    \/ SwitcherStartPage \/ SwitcherWaitBroken \/ SwitcherAdvance

\* C19: while time < safe_mode_until the rotation loop advances no page: it sends no
\* keystroke and leaves current_index alone, also when safe mode began while it was
\* inside a page's wait or a sync check.
C19_NoRotationInSafeMode ==
    [][(SwitcherStep /\ clock < safe_mode_until)
         => (switcher_key' = "none" /\ current_index' = current_index)]_vars

LaunchStep ==
    \/ PagesListReset \/ PagesSyncReset \/ CrashSleepDone
    \/ (CrashCheck /\ pc' = "crash_launch")

\* C20: while time < safe_mode_until every launch of the renderer, by main() after
\* an exit or by on_pages_sync or on_pages_list, launches the fallback asset alone.
C20_OnlyFallbackInSafeMode ==
    [][(LaunchStep /\ clock' < safe_mode_until') => launched' = "fallback"]_vars

\* in safe mode the renderer runs the normal page set
C20_PagesLaunchedInSafeMode ==
    /\ clock < safe_mode_until
    /\ launched = "pages"

(***************************************************************************)
(* After safe mode (SpecRecover).                                          *)
(***************************************************************************)
\* C21: once safe mode was entered and safe_mode_until has passed, the renderer is
\* eventually relaunched with the full page set, with no further renderer exit and no
\* new page list.
C21_SafeModeRecovers ==
    (safe_mode_until > 0 /\ clock >= safe_mode_until) ~> (launched = "pages")

\* after the deadline the rotation loop has jumped to another tab while the renderer
\* still shows the fallback asset alone (with PageA, PageB, PageC the time-locked target
\* is page 0 at every earlier time of the run, so the keystroke is one sent after the
\* deadline)
C21_RotatingOverFallback ==
    /\ safe_mode_until > 0
    /\ clock >= safe_mode_until
    /\ pages = <<PageA, PageB, PageC>>
    /\ switcher_key = "ctrl+N"
    /\ launched = "fallback"

(***************************************************************************)
(* The sync fields under interleaving (SpecRace).                          *)
(***************************************************************************)
\* on_sync has written some of the four fields and not yet all
SyncHalfWritten == hpc \in {"sync_target", "sync_paused", "sync_reason"}
\* the rotation loop has unpaused for a sync that fires and not yet cleared it
FireHalfCleared == spc \in {"fire_at", "fire_target"}

\* C22: the rotation loop never takes a step that reads paused, sync_at or
\* sync_target_page_id while on_sync has written only some of them, and on_sync never
\* takes a step while the rotation loop has cleared only some of them.
C22_NoPartialSyncObserved ==
    [][/\ (FireCheck \/ FireGoto \/ SwitcherIdle \/ SwitcherWaitBroken \/ AdvanceCheck)
            => ~SyncHalfWritten
       /\ OnSyncStep => ~FireHalfCleared]_vars

\* both threads are through, and the device is left paused for a sync that has no time
\* to fire at: a second command was written between the loop's paused = False and its
\* sync_at = None
C22_PausedForClearedSync ==
    /\ hpc = "idle"
    /\ spc \notin {"fire", "fire_at", "fire_target"}
    /\ paused
    /\ pause_reason = "sync"
    /\ sync_at = NoTime

\* C23: from the moment a sync command is accepted (paused, reason sync, sync_at set)
\* until it has fired, the rotation loop makes no timer-based advance.
C23_NoTimerAdvanceBeforeFire ==
    [][AdvanceSend => ~(paused /\ pause_reason = "sync" /\ sync_at # NoTime)]_vars


(***************************************************************************)
(* Blocking work on the event thread (SpecRot).                            *)
(***************************************************************************)
\* C24: no event handler itself executes a renderer relaunch: the handler in progress is
\* never inside launch_browser_with_tabs.
C24_NoLaunchOnEventThread == hpc # "launch"

\* on_pages_sync is still inside the relaunch it started, seconds after the message
\* was received; until it returns no other handler runs
C24_HandlerHeldByLaunch ==
    /\ hpc = "launch"
    /\ sync_received_at # NoTime
    /\ clock > sync_received_at


(***************************************************************************)
(* Screenshots (SpecShot).                                                 *)
(***************************************************************************)
\* the callers between the call of capture_screenshot and the end of the upload
InFlight == { c \in Callers : shot_pc[c] \in {"capture", "upload"} }

\* C25: at most one caller of upload_screenshot is between capture_screenshot and the
\* end of the upload.
C25_OneScreenshotInFlight == Cardinality(InFlight) <= 1

\* one caller uploads while another waits for the lock
C25_SecondCallerWaits ==
    \E c, d \in Callers : shot_pc[c] = "upload" /\ shot_pc[d] = "acquire"

\* C26: a capture attempt never starts less than SCREENSHOT_INTERVAL_SEC after the
\* attempt before it, however that one ended.
C26_AttemptsSpaced ==
    Len(attempts) = 2 => attempts[2] - attempts[1] >= SCREENSHOT_INTERVAL_SEC

\* a second attempt is under way in the same second as the one before it
C26_AttemptRightAfterFailure ==
    /\ Len(attempts) = 2
    /\ attempts[2] = attempts[1]
    /\ InFlight # {}


(***************************************************************************)
(* Malformed sync commands (SpecSync).                                     *)
(***************************************************************************)
\* sync_at is missing, null or a string that is no number
NonNumeric(v) == v.t \in {"missing", "null"} \/ (v.t = "str" /\ v.s \in {"abc", ""})

C28_RotationNeverEnds == spc # "dead"

\* the rotation thread has ended on a server_time that is a string
C28_EndedOnTextServerTime == spc = "dead" /\ sync_server_time = Text


(***************************************************************************)
(* The crash window (SpecCrash).                                           *)
(***************************************************************************)
\* C29: whenever main() has recorded an exit and pruned the window, at time now, every
\* timestamp in crash_times is at most 300 s older than now and the timestamps are in
\* non-decreasing order.
C29_WindowFreshAndOrdered ==
    \A i \in 1..Len(crash_times) :
        /\ now - crash_times[i] <= CrashWindow
        /\ i > 1 => crash_times[i - 1] <= crash_times[i]

\* three exits were recorded without safe mode, and the window holds the last one
\* alone: the two before it were both pruned at once
C29_TwoPrunedAtOnce ==
    /\ Len(exits) = 3
    /\ \A i \in 1..3 : ~exits[i][2]
    /\ exits[2][1] - exits[1][1] <= CrashWindow
    /\ crash_times = <<exits[3][1]>>


ShotStep ==
    \E c \in Callers :
        \/ ShotCall(c) \/ ShotAcquire(c) \/ ShotRecheck(c) \/ ShotCapture(c)
        \/ ShotUpload(c)

\* C31: no step of upload_screenshot changes current_server_url, connection_type,
\* last_disconnect_time, last_local_failure_time, last_switch_time or
\* local_stable_since.
C31_ShotLeavesConnectionState == [][ShotStep => UNCHANGED connGlobals]_vars

\* over the local path an upload has failed and the local-failure time was written,
\* with no disconnect and no scan having happened
C31_FailureTimeSetByUpload ==
    /\ connection_type = "local"
    /\ last_local_failure_time = clock
    /\ last_disconnect_time = 0
    /\ sio_connected
    /\ attempts # <<>>
    /\ \A c \in Callers : shot_pc[c] = "idle"

(***************************************************************************)
(* The stability timer across a change of the connection (SpecConn).       *)
(***************************************************************************)
\* main() assigns current_server_url and connection_type and calls sio.connect: the
\* failover of the rescan (lines 1587-1589) or the controlled switch (lines 1631-1633)
SwitchOfConnection == RescanConnect \/ SwitchConnect

\* C32: local_stable_since is 0 right after every switch of the active connection: the
\* controlled switch, whether its reconnect succeeded or failed, and the reconnect of
\* a rescan.
C32_StabilityResetOnSwitch == [][SwitchOfConnection => local_stable_since' = 0]_vars

\* the rescan has just reconnected the device after a period of disconnection, and
\* the stability time gathered before the connection was lost is still there
C32_StaleStabilityAfterFailover ==
    /\ pc = "rescan_reset"
    /\ sio_connected
    /\ ev.kind = "select" /\ ev.by = "rescan_ret"
    /\ local_stable_since # 0
    /\ local_stable_since < last_disconnect_time

(***************************************************************************)
(* No partial credit for the stability window (SpecConn).                  *)
(***************************************************************************)
\* lines 1602 and 1606: the optimisation check is due and the device is connected
\* over a path that is not the local one
OptCheckRuns ==
    /\ pc = "opt_check"
    /\ now - last_switch_check >= switch_check_interval
    /\ connection_type # "local"
    /\ sio_connected

C34_FallbackToPreviousServer == pc = "switch_fallback" => current_server_url # sio_url

\* the switch and its fallback have both failed against the local candidate: the
\* device is left disconnected with the local candidate as its server, and the
\* overlay server it was connected to was never tried again
C34_LeftOnFailedCandidate ==
    /\ pc = "loop_sleep"
    /\ ~sio_connected /\ ~sio_reconnect
    /\ current_server_url = LocalServerUrl
    /\ sio_url = LocalServerUrl
    /\ connection_type = "local"
    /\ local_stable_since # 0
    /\ last_switch_time = 0

(***************************************************************************)
(* The short delay between relaunches (SpecCrash).                         *)
(***************************************************************************)
\* C35: a renderer exit that does not enter safe mode and comes less than CrashBackoff
\* seconds after the renderer exit before it, whichever branch handled that one, is
\* relaunched only after the 10 s sleep.
C35_QuickExitDelaysRelaunch ==
    [][ ( /\ CrashCheck
          /\ safe_mode_until' = safe_mode_until
          /\ exits # <<>>
          /\ clock - exits[Len(exits)][1] < CrashBackoff )
        => pc' = "crash_sleep" ]_vars

\* the exit that followed the entry into safe mode by less than 10 s was relaunched
\* at once
C35_RelaunchedAtOnceAfterSafeModeEntry ==
    /\ Len(exits) >= 2
    /\ exits[Len(exits) - 1][2]
    /\ ~exits[Len(exits)][2]
    /\ exits[Len(exits)][1] - exits[Len(exits) - 1][1] < CrashBackoff
    /\ pc = "crash_launch"
    /\ clock = exits[Len(exits)][1]
    /\ last_crash = clock

SymbolicHost(url) == ParsedHost(url) # <<>> /\ ~FirstCharIsDigit(ParsedHost(url))

\* the list holds a candidate of this address, type and priority
Emitted(result, ip, port, type, priority) ==
    \E i \in 1..Len(result) :
        /\ result[i].url = MakeUrl(ip, port)
        /\ result[i].type = type
        /\ result[i].priority = priority

\* C37: for a symbolic configured host, whether the overlay network is active or not,
\* the address ordinary name resolution gives is emitted as a candidate classified by
\* its pattern (private range: local, priority 1; overlay range: tailscale, priority
\* 2), and so is the address overlay-name resolution gives (tailscale, priority 2).
C37_SymbolicHostResolvedBothWays ==
    (disc.done /\ SymbolicHost(disc.url)) =>
        LET port == ParsedPort(disc.url)
            dns == disc.net.dns
            ts == resolve_tailscale_name(ParsedHost(disc.url), disc.net)
        IN /\ (dns # NoIP /\ IsLocalPattern(dns))
                => Emitted(disc.result, dns, port, "local", 1)
           /\ (dns # NoIP /\ IsTailscalePattern(dns))
                => Emitted(disc.result, dns, port, "tailscale", 2)
           /\ (is_tailscale_active(disc.net) /\ ts # NoIP)
                => Emitted(disc.result, ts, port, "tailscale", 2)

\* the overlay is stopped, the name resolves to a private address, and the list is
\* the configured URL alone with type unknown: the name was never looked up
C37_NameNotResolvedOverlayStopped ==
    /\ disc.done
    /\ SymbolicHost(disc.url)
    /\ ~is_tailscale_active(disc.net)
    /\ disc.net.dns # NoIP /\ IsLocalPattern(disc.net.dns)
    /\ ~Emitted(disc.result, disc.net.dns, ParsedPort(disc.url), "local", 1)
    /\ Len(disc.result) = 1 /\ disc.result[1].type = "unknown"

(***************************************************************************)
(* The walk to a tab past the ninth (SpecWalk).                            *)
(***************************************************************************)
\* C38: a jump to a target index of 9 or more takes at most as many single steps as
\* the list had pages when the jump began, whatever the event thread does to pages
\* and current_index meanwhile.
C38_WalkWithinOneRound == calc.phase \in {"walk", "done"} => calc.steps <= calc.len0

\* the list was replaced by a shorter one during the walk: the index goes round the
\* three pages, has taken more steps than the old list had pages, and can never
\* stand on the target
C38_WalkPastShorterList ==
    /\ calc.phase = "walk"
    /\ pages = ShortList
    /\ calc.idx >= Len(pages)
    /\ current_index < Len(pages)
    /\ calc.steps > calc.len0
    /\ hpc = "idle"

(***************************************************************************)
(* The pause reason of a device that is not paused (SpecRot).              *)
(***************************************************************************)
\* C39: in every reachable state a device that is not paused has no pause reason:
\* paused = FALSE implies pause_reason = None.
C39_UnpausedHasNoReason == ~paused => pause_reason = None

\* the rotation loop has fired the scheduled sync and un-paused the device, and the
\* global pause reason still says sync
C39_SyncReasonSurvivesFire ==
    /\ ~paused
    /\ pause_reason = "sync"
    /\ sync_at = NoTime
    /\ sync_target_page_id = NoPageId
    /\ spc = "gate"
    /\ browser_ready

====
